---- MODULE Spec2Model ----
(***************************************************************************)
(* A model of the ohtujutt-rss data-acquisition layer:                     *)
(*   - response-cache.js : an lru-cache instance (max, ttl) behind         *)
(*                         getCached / setCache / hasCache / deleteCache / *)
(*                         getCachedBatch / clearCache;                    *)
(*   - http-client.js    : fetchWithRetry, a retry loop run inside a       *)
(*                         p-limit limiter;                                *)
(*   - index.js          : fetchEpisodes, which merges cached and freshly  *)
(*                         fetched episodes in listing order.              *)
(* JavaScript runs the code between two awaits atomically, so every action *)
(* below is one such run: from the event that resumes the code (a call, a  *)
(* network response, a timer) to the next await.                           *)
(***************************************************************************)
EXTENDS Integers, Sequences, FiniteSets, TLC

VARIABLES
    now,          \* the clock read by lru-cache (performance.now()), in ticks
    cache,        \* the LRUCache: its entries, least recently used first
    ret,          \* the last cache operation of a caller and what it returned
    calls,        \* the fetchWithRetry invocations, by call id
    queue,        \* p-limit's queue of calls not yet started (pendingCount)
    activeCount,  \* p-limit's number of running calls
    ticks,        \* p-limit's pending "try to start the next" microtasks
    batch,        \* the fetchEpisodes invocations, by batch id
    config,       \* the environment's settings and the values the modules made of them
    feedCache,    \* index.js's feedCache: the last feed generated and when
    res           \* what each request for the feed was answered, by request id

vars == <<now, cache, ret, calls, queue, activeCount, ticks, batch, config, feedCache, res>>

----------------------------------------------------------------------------
(* Bounds of the model.  The cache capacity and the TTL are the program's  *)
(* settings scaled down to sizes a model checker can enumerate (the        *)
(* defaults are 200 entries and 3,600,000 ms).                             *)

MaxNow == 4
MAX_CACHE_ENTRIES == 2
CACHE_TTL_MS == 1

\* The episode ids the upstream may list.
Ids == {1, 2, 3}

SERIES_CONTENT_ID == 1038081

SeriesKey == <<"series", SERIES_CONTENT_ID>>
EpisodeKey(id) == <<"episode", id>>
Keys == {SeriesKey} \cup {EpisodeKey(id) : id \in Ids}

\* JavaScript's undefined, and the parsed JSON bodies the cache stores.
Undefined == [kind |-> "undefined"]
EpisodeData(id, audio) == [kind |-> "episode", id |-> id, audio |-> audio]
SeriesData(ids) == [kind |-> "series", ids |-> ids]

\* The ttlMs arguments a caller passes to setCache: 0 stands for "not given".
TtlArgs == {0, 2}

----------------------------------------------------------------------------
(* lru-cache, as response-cache.js configures it: max = MAX_CACHE_ENTRIES, *)
(* ttl = CACHE_TTL_MS, updateAgeOnGet = updateAgeOnHas = false.            *)

RECURSIVE IndexOf(_, _, _)
IndexOf(c, k, i) ==
    IF i > Len(c) THEN 0
    ELSE IF c[i].key = k THEN i
    ELSE IndexOf(c, k, i + 1)

\* The position of key k in the entry list c, 0 when absent.
KeyIndex(c, k) == IndexOf(c, k, 1)

\* The entry list c without its i-th entry.
RemoveAt(c, i) == [j \in 1..(Len(c) - 1) |-> IF j < i THEN c[j] ELSE c[j + 1]]

\* Mutant: an entry is stale as soon as its age reaches its ttl.
IsStaleAtTtl(e, t) == e.ttl # 0 /\ e.start # 0 /\ t - e.start >= e.ttl

\* lru-cache's #isStale: an entry is stale once its age exceeds its ttl.
IsStale(e, t) == e.ttl # 0 /\ e.start # 0 /\ t - e.start > e.ttl

\* lru-cache's #moveToTail: the i-th entry becomes the most recently used.
MoveToTail(c, i) == Append(RemoveAt(c, i), c[i])

\* LRUCache.delete(k): the entry list afterwards.
LruDelete(c, k) ==
    IF KeyIndex(c, k) = 0 THEN c ELSE RemoveAt(c, KeyIndex(c, k))

\* Mutant: get returns a live entry's value and leaves it where it is.
LruGetPeek(c, k, t) ==
    LET i == KeyIndex(c, k)
    IN  IF i = 0 THEN [cache |-> c, val |-> Undefined]
        ELSE IF IsStale(c[i], t) THEN [cache |-> RemoveAt(c, i), val |-> Undefined]
        ELSE [cache |-> c, val |-> c[i].value]

\* Mutant: updateAgeOnGet, a get of a live entry starts its age again.
LruGetUpdatesAge(c, k, t) ==
    LET i == KeyIndex(c, k)
    IN  IF i = 0 THEN [cache |-> c, val |-> Undefined]
        ELSE IF IsStale(c[i], t) THEN [cache |-> RemoveAt(c, i), val |-> Undefined]
        ELSE [cache |-> Append(RemoveAt(c, i), [c[i] EXCEPT !.start = t]),
              val |-> c[i].value]

\* LRUCache.get(k): a stale entry is deleted and undefined returned; a live
\* entry is moved to the tail and its value returned.  Its age is not reset.
LruGet(c, k, t) ==
    LET i == KeyIndex(c, k)
    IN  IF i = 0 THEN [cache |-> c, val |-> Undefined]
        ELSE IF IsStale(c[i], t) THEN [cache |-> RemoveAt(c, i), val |-> Undefined]
        ELSE [cache |-> MoveToTail(c, i), val |-> c[i].value]

\* LRUCache.has(k): true for a live entry; nothing is moved, aged or deleted.
LruHas(c, k, t) ==
    LET i == KeyIndex(c, k)
    IN  i # 0 /\ ~IsStale(c[i], t)

\* Mutant: a set of a key that is in the cache refreshes the entry's age and
\* recency and keeps the value it had.
LruSetKeepOld(c, k, v, ttl, t) ==
    LET i == KeyIndex(c, k)
        e == [key |-> k, value |-> v, start |-> IF ttl # 0 THEN t ELSE 0, ttl |-> ttl]
    IN  IF v = Undefined THEN LruDelete(c, k)
        ELSE IF i # 0 THEN Append(RemoveAt(c, i), [e EXCEPT !.value = c[i].value])
        ELSE IF Len(c) = MAX_CACHE_ENTRIES THEN Append(Tail(c), e)
        ELSE Append(c, e)

\* Mutant: a new key is appended to a full cache and nothing is evicted.
LruSetNoEvict(c, k, v, ttl, t) ==
    LET i == KeyIndex(c, k)
        e == [key |-> k, value |-> v, start |-> IF ttl # 0 THEN t ELSE 0, ttl |-> ttl]
    IN  IF v = Undefined THEN LruDelete(c, k)
        ELSE IF i # 0 THEN Append(RemoveAt(c, i), e)
        ELSE Append(c, e)

\* Mutant: a new key evicts the most recently used entry of a full cache.
LruSetEvictNewest(c, k, v, ttl, t) ==
    LET i == KeyIndex(c, k)
        e == [key |-> k, value |-> v, start |-> IF ttl # 0 THEN t ELSE 0, ttl |-> ttl]
    IN  IF v = Undefined THEN LruDelete(c, k)
        ELSE IF i # 0 THEN Append(RemoveAt(c, i), e)
        ELSE IF Len(c) = MAX_CACHE_ENTRIES THEN Append(RemoveAt(c, Len(c)), e)
        ELSE Append(c, e)

\* Mutant: a set on a full cache evicts the head, whether the key is new or not.
LruSetEvictsOnOverwrite(c, k, v, ttl, t) ==
    LET e == [key |-> k, value |-> v, start |-> IF ttl # 0 THEN t ELSE 0, ttl |-> ttl]
        rest == IF Len(c) = MAX_CACHE_ENTRIES THEN Tail(c) ELSE c
    IN  IF v = Undefined THEN LruDelete(c, k)
        ELSE Append(LruDelete(rest, k), e)

\* LRUCache.set(k, v, {ttl}): undefined deletes; an existing key is updated
\* and moved to the tail; a new key evicts the head when the cache is full.
LruSet(c, k, v, ttl, t) ==
    LET i == KeyIndex(c, k)
        e == [key |-> k, value |-> v, start |-> IF ttl # 0 THEN t ELSE 0, ttl |-> ttl]
    IN  IF v = Undefined THEN LruDelete(c, k)
        ELSE IF i # 0 THEN Append(RemoveAt(c, i), e)
        ELSE IF Len(c) = MAX_CACHE_ENTRIES THEN Append(Tail(c), e)
        ELSE Append(c, e)

----------------------------------------------------------------------------
(* response-cache.js                                                       *)

\* getCached(key)
getCached(c, key, t) == LruGet(c, key, t)

\* setCache(key, data, ttlMs): the entry list afterwards.
setCache(c, key, data, ttlMs, t) ==
    LruSet(c, key, data, IF ttlMs # 0 THEN ttlMs ELSE CACHE_TTL_MS, t)

\* hasCache(key)
hasCache(c, key, t) == LruHas(c, key, t)

\* deleteCache(key): the entry list afterwards and whether the key existed.
deleteCache(c, key) == [cache |-> LruDelete(c, key), val |-> KeyIndex(c, key) # 0]

\* Mutant: the loop over the keys ends at the first key that has no value.
RECURSIVE BatchFromUntilMiss(_, _, _, _, _)
BatchFromUntilMiss(c, keys, i, results, t) ==
    IF i > Len(keys) THEN [cache |-> c, val |-> results]
    ELSE LET g == LruGet(c, keys[i], t)
         IN  IF g.val = Undefined THEN [cache |-> g.cache, val |-> results]
             ELSE BatchFromUntilMiss(g.cache, keys, i + 1,
                                     {p \in results : p[1] # keys[i]} \cup {<<keys[i], g.val>>},
                                     t)

\* getCachedBatch(keys): cache.get for each key in turn, collecting the
\* values that are not undefined.  results is a set of <<key, value>> pairs.
RECURSIVE BatchFrom(_, _, _, _, _)
BatchFrom(c, keys, i, results, t) ==
    IF i > Len(keys) THEN [cache |-> c, val |-> results]
    ELSE LET g == LruGet(c, keys[i], t)
         IN  BatchFrom(g.cache, keys, i + 1,
                       IF g.val # Undefined
                       THEN {p \in results : p[1] # keys[i]} \cup {<<keys[i], g.val>>}
                       ELSE results,
                       t)

getCachedBatch(c, keys, t) == BatchFrom(c, keys, 1, {}, t)

\* Map.has and Map.get on the result of getCachedBatch.
MapHas(m, k) == \E p \in m : p[1] = k
MapGet(m, k) == IF MapHas(m, k) THEN (CHOOSE p \in m : p[1] = k)[2] ELSE Undefined

\* getCacheStats().size
CacheSize(c) == Len(c)

\* getCacheKeys()
getCacheKeys(c) == {c[i].key : i \in 1..Len(c)}

----------------------------------------------------------------------------
(* The cache's callers, one call per step.                                 *)

\* The keys and the values the callers of this specification use.
TestKeys == {EpisodeKey(id) : id \in Ids}
\* The writes the callers make: each episode's data under its key, and a
\* second version of episode 1.
TestWrites ==
    {<<EpisodeKey(id), EpisodeData(id, TRUE)>> : id \in Ids}
        \cup {<<EpisodeKey(1), EpisodeData(1, FALSE)>>}

\* The ttlMs arguments of a write: episode 1 is also written with a ttl of
\* its own.
TtlArgsFor(w) == IF w[1] = EpisodeKey(1) THEN TtlArgs ELSE {0}

\* The key lists the callers pass to getCachedBatch.
BatchKeyLists ==
    {<<EpisodeKey(1), EpisodeKey(2)>>, <<EpisodeKey(2), EpisodeKey(1)>>,
     <<EpisodeKey(3), EpisodeKey(3)>>}

NoRet ==
    [op |-> "none", key |-> <<>>, keys |-> <<>>, val |-> Undefined, head |-> <<>>,
     evicted |-> <<>>, size |-> 0]

\* The least recently used key: the one a set of a new key into a full cache evicts.
\* ret.head keeps it as it was before a get or a getBatch, ret.size the number
\* of entries (getCacheStats().size) as it was before a set.
LruHead(c) == IF Len(c) = 0 THEN <<>> ELSE c[1].key

\* The key a set of k into c pushes out, <<>> when none.
Evicted(c, k) ==
    IF KeyIndex(c, k) = 0 /\ Len(c) = MAX_CACHE_ENTRIES THEN c[1].key ELSE <<>>

Others == <<calls, queue, activeCount, ticks, batch>>

SetCacheOp(k, v, ttlMs) ==
    /\ cache' = setCache(cache, k, v, ttlMs, now)
    /\ ret' = [op |-> "set", key |-> k, keys |-> <<>>, val |-> v, head |-> <<>>,
               evicted |-> Evicted(cache, k), size |-> CacheSize(cache)]
    /\ UNCHANGED <<feedCache, res, config, now, Others>>

GetCachedOp(k) ==
    /\ cache' = getCached(cache, k, now).cache
    /\ ret' = [op |-> "get", key |-> k, keys |-> <<>>, val |-> getCached(cache, k, now).val,
               head |-> LruHead(cache), evicted |-> <<>>, size |-> 0]
    /\ UNCHANGED <<feedCache, res, config, now, Others>>

GetCachedBatchOp(keys) ==
    /\ cache' = getCachedBatch(cache, keys, now).cache
    /\ ret' = [op |-> "getBatch", key |-> <<>>, keys |-> keys,
               val |-> getCachedBatch(cache, keys, now).val,
               head |-> LruHead(cache), evicted |-> <<>>, size |-> 0]
    /\ UNCHANGED <<feedCache, res, config, now, Others>>

HasCacheOp(k) ==
    /\ ret' = [op |-> "has", key |-> k, keys |-> <<>>, val |-> hasCache(cache, k, now),
               head |-> <<>>, evicted |-> <<>>, size |-> 0]
    /\ UNCHANGED <<feedCache, res, config, now, cache, Others>>

DeleteCacheOp(k) ==
    /\ cache' = deleteCache(cache, k).cache
    /\ ret' = [op |-> "delete", key |-> k, keys |-> <<>>, val |-> deleteCache(cache, k).val,
               head |-> <<>>, evicted |-> <<>>, size |-> 0]
    /\ UNCHANGED <<feedCache, res, config, now, Others>>

ClearCacheOp ==
    /\ cache' = <<>>
    /\ ret' = [op |-> "clear", key |-> <<>>, keys |-> <<>>, val |-> Undefined,
               head |-> <<>>, evicted |-> <<>>, size |-> 0]
    /\ UNCHANGED <<feedCache, res, config, now, Others>>

\* Time passes.
Tick ==
    /\ now < MaxNow
    /\ now' = now + 1
    /\ UNCHANGED <<feedCache, res, config, cache, ret, Others>>

----------------------------------------------------------------------------
(* http-client.js: the settings.  MAX_CONCURRENT_REQUESTS = 2 is within    *)
(* the setting's range (1-20); the other two are the defaults.             *)

MAX_CONCURRENT_REQUESTS == 2
MAX_RETRIES == 2
INITIAL_RETRY_DELAY_MS == 500

\* The direct callers of fetchWithRetry, and the batches of fetchEpisodes.
NumCalls == 4
\* The time of the clock up to which batches are followed: an entry stored at
\* the first instant has expired by then.
BatchMaxNow == 3
Batches == {1}
BATCH_CAP == 2

\* Call ids: <<0, i>> is the i-th direct caller; <<b, 0>> is the listing
\* request of batch b and <<b, j>> its j-th episode request.
DirectCalls == {<<0, i>> : i \in 1..NumCalls}
BatchCalls == {<<b, j>> : b \in Batches, j \in 0..BATCH_CAP}
CallIds == DirectCalls \cup BatchCalls

----------------------------------------------------------------------------
(* What one network request can come to: a response (status, statusText),  *)
(* a network failure (fetch rejects with a TypeError), or the timeout      *)
(* timer firing first (controller.abort(): fetch rejects with AbortError). *)

\* A response also has headers (a set of <<name, value>> pairs, one per name)
\* and a body: text is what response.text() gives, Unreadable when it rejects.
\* took is the time on Date.now()'s clock between the request and the response.
Text(chars) == [readable |-> TRUE, chars |-> chars]
Unreadable == [readable |-> FALSE, chars |-> <<>>]
NoHeaders == {}
RichResponse(status, statusText, headers, text, took) ==
    [type |-> "response", status |-> status, statusText |-> statusText,
     headers |-> headers, text |-> text, took |-> took]
Response(status, statusText) == RichResponse(status, statusText, NoHeaders, Text(<<>>), 0)
NetworkFailure ==
    [type |-> "TypeError", status |-> 0, statusText |-> <<>>,
     headers |-> NoHeaders, text |-> Text(<<>>), took |-> 0]
Timeout ==
    [type |-> "AbortError", status |-> 0, statusText |-> <<>>,
     headers |-> NoHeaders, text |-> Text(<<>>), took |-> 0]

\* Reason phrases, as sequences of characters.
TextOK == <<"O", "K">>
TextNotFound == <<"N", "o", "t", " ", "F", "o", "u", "n", "d">>
TextTooMany == <<"T", "o", "o", " ", "M", "a", "n", "y">>
TextError == <<"E", "r", "r", "o", "r">>
\* A reason phrase chosen by the server that quotes another status.
TextQuoting5 == <<"H", "T", "T", "P", " ", "5", "0", "2">>

Outcomes ==
    { Response(200, TextOK), Response(404, TextNotFound), Response(404, TextQuoting5),
      Response(429, TextTooMany), Response(500, TextError), NetworkFailure, Timeout }

\* Responses whose status is outside 2xx, 4xx and 5xx: a 304 with its usual
\* reason phrase, and one whose reason phrase quotes another status.
TextNotModified == <<"N", "o", "t", " ", "M", "o", "d">>
TextQuoting4 == <<"H", "T", "T", "P", " ", "4", "0", "4">>
Redirections == { Response(304, TextNotModified), Response(304, TextQuoting4) }

BasicOutcomes == { Response(200, TextOK), Response(500, TextError) }

BatchOutcomes == { Response(200, TextOK), Response(404, TextNotFound), Response(500, TextError) }

\* Responses of an upstream that refuses: with headers on and off the
\* diagnostic list and one with an empty value, and with a body longer than the
\* snippet, exactly as long, or that cannot be read.
TextForbidden == <<"F", "o", "r", "b", "i", "d", "d", "e", "n">>
Chars(ch, n) == [i \in 1..n |-> ch]
RefusalHeaders ==
    { <<"server", "cloudflare">>, <<"cf-ray", "12345-IAD">>, <<"retry-after", "">>,
      <<"set-cookie", "session=1">>, <<"x-powered-by", "php">> }
ForbiddenLong == RichResponse(403, TextForbidden, RefusalHeaders, Text(Chars("x", 600)), 7)
ForbiddenExact == RichResponse(403, TextForbidden, NoHeaders, Text(Chars("x", 512)), 3)
UnavailableUnreadable == RichResponse(503, TextError, RefusalHeaders, Unreadable, 3)
RefusalOutcomes == { ForbiddenLong, ForbiddenExact, UnavailableUnreadable }

ShortOutcomes == { Response(200, TextOK), Response(404, TextNotFound) }

\* The outcomes the requests of call c can come to.  To keep the state space
\* small, one direct caller sees every outcome, the next two a server that
\* answers 200 or 500 and the others one that answers 200 or 404; in a batch,
\* the listing request and the first episode request see 200, 404 and 500,
\* the listing request also every refusal and a network failure, the first
\* episode request the refusal with the long body, and the other episode
\* requests 200 and 404.
Menu(c) ==
    IF c = <<0, 1>> THEN Outcomes
    ELSE IF c \in DirectCalls /\ c[2] <= 3 THEN BasicOutcomes
    ELSE IF c \in DirectCalls THEN ShortOutcomes
    ELSE IF c[2] = 0 THEN BatchOutcomes \cup RefusalOutcomes \cup {NetworkFailure}
    ELSE IF c[2] = 1 THEN BatchOutcomes \cup {ForbiddenLong}
    ELSE ShortOutcomes

\* response.ok
Ok(o) == o.type = "response" /\ o.status \in 200..299

\* The failure classes of the error taxonomy, by what happened on the wire.
Kind(o) ==
    IF o.type # "response" THEN "retryable"
    ELSE IF Ok(o) THEN "ok"
    ELSE IF o.status = 429 \/ o.status \in 500..599 THEN "retryable"
    ELSE IF o.status \in 400..499 THEN "client"
    ELSE "other"

----------------------------------------------------------------------------
(* Error objects and their classification.                                 *)

DigitChars == <<"0", "1", "2", "3", "4", "5", "6", "7", "8", "9">>

\* A three-digit status as characters.
StatusChars(n) ==
    <<DigitChars[(n \div 100) + 1], DigitChars[((n \div 10) % 10) + 1], DigitChars[(n % 10) + 1]>>

\* String.prototype.includes
Includes(str, pat) ==
    \E i \in 0..(Len(str) - Len(pat)) : \A j \in 1..Len(pat) : str[i + j] = pat[j]

\* An error object: status 0, url <<>>, elapsedMs 0, no headers and no
\* snippet stand for the properties an error does not have.
NoError ==
    [name |-> "none", message |-> <<>>, status |-> 0, url |-> <<>>, elapsedMs |-> 0,
     responseHeaders |-> {}, bodySnippet |-> <<>>]

\* new Error(`HTTP ${response.status}: ${response.statusText}`)
HttpError(o) ==
    [NoError EXCEPT
        !.name = "Error",
        !.message = <<"H", "T", "T", "P", " ">> \o StatusChars(o.status) \o <<":", " ">> \o o.statusText,
        !.status = o.status]

\* The headers worth logging.
DIAGNOSTIC_HEADERS ==
    { "server", "x-request-id", "x-correlation-id",
      "cf-ray", "cf-cache-status", "cf-connecting-ip",
      "x-cache", "x-cache-hits", "x-served-by", "x-timer",
      "retry-after", "www-authenticate",
      "x-ratelimit-limit", "x-ratelimit-remaining", "x-ratelimit-reset",
      "content-type", "content-length", "date", "age",
      "x-amz-request-id", "x-amz-cf-id", "x-edge-location" }

\* response.headers.get(name): the value, "" (falsy, as null is) without one.
HeaderGet(headers, name) ==
    IF \E h \in headers : h[1] = name THEN (CHOOSE h \in headers : h[1] = name)[2] ELSE ""

SnippetMax == 512
Ellipsis == "..."
UnableToReadBody ==
    <<"(", "u", "n", "a", "b", "l", "e", " ", "t", "o", " ", "r", "e", "a", "d", " ",
      "b", "o", "d", "y", ")">>

\* Mutant: the whole body is attached.
BodySnippetWhole(text) == IF ~text.readable THEN UnableToReadBody ELSE text.chars

\* text.length > 512 ? text.slice(0, 512) + '...' : text  (the ellipsis is one
\* character), and '(unable to read body)' when response.text() rejects.
BodySnippet(text) ==
    IF ~text.readable THEN UnableToReadBody
    ELSE IF Len(text.chars) > SnippetMax
         THEN Append(SubSeq(text.chars, 1, SnippetMax), Ellipsis)
         ELSE text.chars

\* buildHttpError(response, url, elapsedMs)
buildHttpError(response, url, elapsedMs) ==
    [HttpError(response) EXCEPT
        !.url = url,
        !.elapsedMs = elapsedMs,
        !.responseHeaders =
            {<<name, HeaderGet(response.headers, name)>> :
                name \in {n \in DIAGNOSTIC_HEADERS : HeaderGet(response.headers, n) # ""}},
        !.bodySnippet = BodySnippet(response.text)]

\* What fetch rejects with.
FetchError(o) ==
    [NoError EXCEPT !.name = o.type, !.message = <<"f", "a", "i", "l", "e", "d">>]

\* The error the try block of one attempt throws on outcome o of the request
\* for url: elapsed is Date.now() - startTime.
AttemptError(o, url) ==
    IF o.type = "response" THEN buildHttpError(o, url, o.took) ELSE FetchError(o)

\* Mutant: an abort is a failure that is not retried.
isRetryableErrorAbortFatal(error) ==
    IF error.name = "AbortError" THEN FALSE
    ELSE IF error.name = "TypeError" THEN TRUE
    ELSE IF Includes(error.message, <<"H", "T", "T", "P", " ", "5">>) THEN TRUE
    ELSE IF Includes(error.message, <<"H", "T", "T", "P", " ", "4", "2", "9">>) THEN TRUE
    ELSE IF Includes(error.message, <<"H", "T", "T", "P", " ", "4">>) THEN FALSE
    ELSE TRUE

isRetryableError(error) ==
    IF error.name = "AbortError" \/ error.name = "TypeError" THEN TRUE
    ELSE IF Includes(error.message, <<"H", "T", "T", "P", " ", "5">>) THEN TRUE
    ELSE IF Includes(error.message, <<"H", "T", "T", "P", " ", "4", "2", "9">>) THEN TRUE
    ELSE IF Includes(error.message, <<"H", "T", "T", "P", " ", "4">>) THEN FALSE
    ELSE TRUE

RECURSIVE Pow2(_)
Pow2(n) == IF n = 0 THEN 1 ELSE 2 * Pow2(n - 1)

\* Mutant: the exponent is the attempt number.
RetryDelayFromDouble(attempt) == INITIAL_RETRY_DELAY_MS * Pow2(attempt)

\* The backoff before attempt number attempt >= 1.
RetryDelay(attempt) == INITIAL_RETRY_DELAY_MS * Pow2(attempt - 1)

----------------------------------------------------------------------------
(* fetchWithRetry: one invocation.                                         *)
(*   pc        idle | queued | inflight | sleeping | returned | raised     *)
(*   url       the url argument                                            *)
(*   attempt   the loop variable                                           *)
(*   requests  the number of fetch(url) calls made so far                  *)
(*   lastError the loop's lastError                                        *)
(*   result    the response returned or the error raised                   *)
(*   delay     the argument of the last sleep(delay)                       *)
(*   hist      the Kind of each request's outcome, in order                *)
(*   timers    the attempts whose timeout timer is armed: the timer of an  *)
(*             attempt aborts the controller made for that attempt, whose  *)
(*             signal only that attempt's request was given                *)

IdleCall ==
    [pc |-> "idle", url |-> <<>>, attempt |-> 0, requests |-> 0, lastError |-> NoError,
     result |-> NoError, delay |-> 0, hist |-> <<>>, timers |-> {}]

\* setTimeout(() => controller.abort(), timeoutMs) of an attempt.
SetTimeout(timers, attempt) == timers \cup {attempt}

\* Mutant: the finally block leaves the timer armed.
ClearTimeoutNot(timers, attempt) == timers

\* clearTimeout(timeoutId) of an attempt.
ClearTimeout(timers, attempt) == timers \ {attempt}

\* The limited function starts: attempt 0 issues its request without waiting.
StartCall(call) ==
    [call EXCEPT !.pc = "inflight", !.attempt = 0, !.requests = 1,
                 !.timers = SetTimeout(call.timers, 0)]

\* Mutant: the loop's bound is off by one (attempt < MAX_RETRIES).
CatchErrorOneShort(call, error) ==
    LET isLastAttempt == call.attempt = MAX_RETRIES - 1
        shouldRetry == ~isLastAttempt /\ isRetryableError(error)
    IN  IF shouldRetry
        THEN [call EXCEPT !.lastError = error, !.attempt = call.attempt + 1,
                          !.pc = "sleeping", !.delay = RetryDelay(call.attempt + 1)]
        ELSE [call EXCEPT !.lastError = error, !.pc = "raised", !.result = error]

\* Mutant: the loop has no last attempt: a retryable failure is always retried.
CatchErrorNoLastAttempt(call, error) ==
    IF isRetryableError(error)
    THEN [call EXCEPT !.lastError = error, !.attempt = call.attempt + 1,
                      !.pc = "sleeping", !.delay = RetryDelay(call.attempt + 1)]
    ELSE [call EXCEPT !.lastError = error, !.pc = "raised", !.result = error]

\* Mutant: lastError is assigned once; the loop raises its first failure.
CatchErrorKeepsFirst(call, error) ==
    LET isLastAttempt == call.attempt = MAX_RETRIES
        shouldRetry == ~isLastAttempt /\ isRetryableError(error)
        first == IF call.lastError = NoError THEN error ELSE call.lastError
    IN  IF shouldRetry
        THEN [call EXCEPT !.lastError = first, !.attempt = call.attempt + 1,
                          !.pc = "sleeping", !.delay = RetryDelay(call.attempt + 1)]
        ELSE [call EXCEPT !.lastError = first, !.pc = "raised", !.result = first]

\* The catch block of attempt call.attempt, and what the loop does next.
CatchError(call, error) ==
    LET isLastAttempt == call.attempt = MAX_RETRIES
        shouldRetry == ~isLastAttempt /\ isRetryableError(error)
    IN  IF shouldRetry
        THEN [call EXCEPT !.lastError = error, !.attempt = call.attempt + 1,
                          !.pc = "sleeping", !.delay = RetryDelay(call.attempt + 1)]
        ELSE [call EXCEPT !.lastError = error, !.pc = "raised", !.result = error]

\* A line of console.error output.  A line names what its text names: id 0,
\* url <<>>, status 0 and elapsedMs -1 stand for a text without that part.
NoLine ==
    [kind |-> "none", id |-> 0, url |-> <<>>, status |-> 0, elapsedMs |-> -1,
     message |-> <<>>, responseHeaders |-> {}, bodySnippet |-> <<>>]

\* `Attempt ${attempt + 1}/${MAX_RETRIES + 1} failed for ${url}: ${error.message}`
AttemptFailedLine(call, error) ==
    [NoLine EXCEPT !.kind = "attempt", !.url = call.url, !.message = error.message]

\* logHttpErrorDetails(error): nothing for an error without a status;
\* otherwise URL, Status, Elapsed, the headers and the body snippet.
logHttpErrorDetails(error) ==
    IF error.status = 0 THEN <<>>
    ELSE <<[NoLine EXCEPT !.kind = "details", !.url = error.url, !.status = error.status,
                          !.elapsedMs = error.elapsedMs,
                          !.responseHeaders = error.responseHeaders,
                          !.bodySnippet = error.bodySnippet]>>

\* Mutant: the last attempt and a failure that is not retried log nothing.
CatchLogRetriesOnly(call, error) ==
    LET isLastAttempt == call.attempt = MAX_RETRIES
        shouldRetry == ~isLastAttempt /\ isRetryableError(error)
    IN  IF shouldRetry
        THEN <<AttemptFailedLine(call, error)>> \o logHttpErrorDetails(error)
        ELSE <<>>

\* What the catch block of attempt call.attempt writes.
CatchLog(call, error) ==
    LET isLastAttempt == call.attempt = MAX_RETRIES
        shouldRetry == ~isLastAttempt /\ isRetryableError(error)
    IN  IF shouldRetry
        THEN <<AttemptFailedLine(call, error)>> \o logHttpErrorDetails(error)
        ELSE logHttpErrorDetails(error)

\* What the attempt of call that settles with outcome o writes.
AttemptLog(call, o) ==
    IF Ok(o) THEN <<>> ELSE CatchLog(call, AttemptError(o, call.url))

\* Mutant: a response that is ok does not leave the loop before the last attempt.
SettleAttemptNoReturn(call, o) ==
    LET seen == [call EXCEPT !.hist = Append(call.hist, Kind(o)),
                             !.timers = ClearTimeout(call.timers, call.attempt)]
    IN  IF Ok(o) /\ call.attempt = MAX_RETRIES
        THEN [seen EXCEPT !.pc = "returned", !.result = o]
        ELSE IF Ok(o)
        THEN [seen EXCEPT !.attempt = call.attempt + 1, !.pc = "sleeping",
                          !.delay = RetryDelay(call.attempt + 1)]
        ELSE CatchError(seen, AttemptError(o, call.url))

\* The request of the current attempt settles with outcome o.
SettleAttempt(call, o) ==
    LET seen == [call EXCEPT !.hist = Append(call.hist, Kind(o)),
                             !.timers = ClearTimeout(call.timers, call.attempt)]
    IN  IF Ok(o)
        THEN [seen EXCEPT !.pc = "returned", !.result = o]
        ELSE CatchError(seen, AttemptError(o, call.url))

\* sleep(delay) is over: the attempt issues its request.
WakeCall(call) ==
    [call EXCEPT !.pc = "inflight", !.requests = call.requests + 1,
                 !.timers = SetTimeout(call.timers, call.attempt)]

Settled(call) == call.pc \in {"returned", "raised"}

\* A settled call whose result its caller has taken: the loop's locals are
\* gone; how it ended and the number of requests it made stay on record.
Taken(call) == [IdleCall EXCEPT !.pc = call.pc, !.requests = call.requests]

----------------------------------------------------------------------------
(* p-limit.  limit(fn) puts fn on the queue and schedules a microtask that *)
(* starts the head of the queue if a slot is free; when a running fn       *)
(* settles, next() frees its slot and starts the head of the queue.        *)

\* Mutant: the call scheduled last starts running.
DequeueLast(l) ==
    [calls |-> [l.calls EXCEPT ![l.queue[Len(l.queue)]] = StartCall(l.calls[l.queue[Len(l.queue)]])],
     queue |-> SubSeq(l.queue, 1, Len(l.queue) - 1),
     activeCount |-> l.activeCount + 1]

\* Mutant: the head of the queue starts running and stays on the queue.
DequeueKeep(l) ==
    [calls |-> [l.calls EXCEPT ![Head(l.queue)] = StartCall(l.calls[Head(l.queue)])],
     queue |-> l.queue,
     activeCount |-> l.activeCount + 1]

\* The head of the queue starts running.
Dequeue(l) ==
    [calls |-> [l.calls EXCEPT ![Head(l.queue)] = StartCall(l.calls[Head(l.queue)])],
     queue |-> Tail(l.queue),
     activeCount |-> l.activeCount + 1]

\* Mutant: next() frees the slot and leaves the queue as it is.
LimitNextNoStart(l) == [l EXCEPT !.activeCount = l.activeCount - 1]

\* p-limit's next()
LimitNext(l) ==
    LET freed == [l EXCEPT !.activeCount = l.activeCount - 1]
    IN  IF Len(freed.queue) > 0 THEN Dequeue(freed) ELSE freed

\* Mutant: the microtask starts the head of the queue without looking at activeCount.
LimitTryStartUnchecked(l) == IF Len(l.queue) > 0 THEN Dequeue(l) ELSE l

\* The microtask limit(fn) schedules.
LimitTryStart(l) ==
    IF l.activeCount < MAX_CONCURRENT_REQUESTS /\ Len(l.queue) > 0 THEN Dequeue(l) ELSE l

Limiter == [calls |-> calls, queue |-> queue, activeCount |-> activeCount]

SetLimiter(l) ==
    /\ calls' = l.calls
    /\ queue' = l.queue
    /\ activeCount' = l.activeCount

\* limit.pendingCount and limit.activeCount
getPendingCount == Len(queue)
getActiveCount == activeCount

\* A microtask is due: it runs before any timer or network event is handled.
MicrotaskDue == ticks > 0

\* fetchWithRetry(url, timeoutMs) is called: limit(async () => ...).
Enqueue(c, url) ==
    /\ calls[c].pc = "idle"
    /\ calls' = [calls EXCEPT ![c].pc = "queued", ![c].url = url]
    /\ queue' = Append(queue, c)
    /\ ticks' = ticks + 1
    /\ UNCHANGED activeCount

\* The microtask of one limit(fn) call runs.
TryStart ==
    /\ ticks > 0
    /\ ticks' = ticks - 1
    /\ SetLimiter(LimitTryStart(Limiter))
    /\ UNCHANGED <<feedCache, res, config, now, cache, ret, batch>>

\* Mutant: a call that raises keeps its slot.
AttemptSettlesLeakOnRaise(c, o) ==
    /\ ~MicrotaskDue
    /\ calls[c].pc = "inflight"
    /\ LET after == SettleAttempt(calls[c], o)
           l == [Limiter EXCEPT !.calls = [calls EXCEPT ![c] = after]]
       IN  SetLimiter(IF after.pc = "returned" THEN LimitNext(l) ELSE l)
    /\ UNCHANGED ticks

\* Mutant: the slot is freed whenever a request settles, also when the call
\* goes on to back off.
AttemptSettlesReleasing(c, o) ==
    /\ ~MicrotaskDue
    /\ calls[c].pc = "inflight"
    /\ LET after == SettleAttempt(calls[c], o)
           l == [Limiter EXCEPT !.calls = [calls EXCEPT ![c] = after]]
       IN  SetLimiter(LimitNext(l))
    /\ UNCHANGED ticks

\* The request of call c settles with outcome o; a call that returns or
\* raises frees its slot.
AttemptSettles(c, o) ==
    /\ ~MicrotaskDue
    /\ calls[c].pc = "inflight"
    /\ LET after == SettleAttempt(calls[c], o)
           l == [Limiter EXCEPT !.calls = [calls EXCEPT ![c] = after]]
       IN  SetLimiter(IF Settled(after) THEN LimitNext(l) ELSE l)
    /\ UNCHANGED ticks

\* The backoff timer of call c fires.
BackoffEnds(c) ==
    /\ ~MicrotaskDue
    /\ calls[c].pc = "sleeping"
    /\ calls' = [calls EXCEPT ![c] = WakeCall(calls[c])]
    /\ UNCHANGED <<queue, activeCount, ticks>>

\* The url of a direct caller.
DirectUrl(c) == <<"direct", c[2]>>

\* A direct caller calls fetchWithRetry.
Submit(c) ==
    /\ Enqueue(c, DirectUrl(c))
    /\ UNCHANGED <<feedCache, res, config, now, cache, ret, batch>>

\* The request call c has in flight settles with outcome o; it is aborted
\* only by the timer of its own attempt, and only while that timer is armed.
Respond(c, o) ==
    /\ o = Timeout => calls[c].attempt \in calls[c].timers
    /\ AttemptSettles(c, o)
    /\ UNCHANGED <<feedCache, res, config, now, cache, ret, batch>>

Wake(c) ==
    /\ BackoffEnds(c)
    /\ UNCHANGED <<feedCache, res, config, now, cache, ret, batch>>


----------------------------------------------------------------------------
(* index.js: fetchEpisodes, one invocation.                                *)
(*   pc          idle | listing (awaiting fetchWithRetry(seriesUrl)) |     *)
(*               listingJson (awaiting response.json()) |                  *)
(*               items (awaiting Promise.all) | done                       *)
(*   recentIds, uncachedIds   the locals of that name                      *)
(*   cached      cachedEpisodes, a set of <<key, value>> pairs             *)
(*   item        per uncached id: fetching | parsing | done, and the data  *)
(*               of its fetchResults element (Null on failure)             *)
(*   out         the episodes returned                                     *)
(*   raised      whether the invocation threw                              *)
(*   listing     how the series data was come by: none | cached | fetched  *)
(*               | failed                                                  *)

Null == [kind |-> "null"]

\* The listings the upstream serves (seasonList flattened to its content ids).
Listings == { <<>>, <<2, 1, 3>>, <<1, 1, 2>>, <<3, 2>> }

\* What response.json() can come to: a SyntaxError, or the parsed body.
Malformed == [kind |-> "malformed"]
ListingBodies == {Malformed} \cup {SeriesData(ids) : ids \in Listings}
\* The upstream's episode 3 has no audio file.
HasAudio(id) == id # 3
EpisodeBodies(id) == {Malformed, EpisodeData(id, HasAudio(id))}
AllEpisodeBodies == UNION {EpisodeBodies(id) : id \in Ids}

IdleBatch ==
    [pc |-> "idle", recentIds |-> <<>>, cached |-> {}, uncachedIds |-> <<>>,
     item |-> <<>>, out |-> <<>>, raised |-> FALSE, listing |-> "none"]

\* Mutant: the last n ids of the listing are kept.
SliceLast(seq, n) == SubSeq(seq, IF Len(seq) < n THEN 1 ELSE Len(seq) - n + 1, Len(seq))

\* Array.prototype.slice(0, n)
Slice(seq, n) == SubSeq(seq, 1, IF Len(seq) < n THEN Len(seq) ELSE n)

\* Mutant: an episode without an audio URL is an item too.
parseEpisodeAny(data) ==
    IF data.kind = "episode" THEN [kind |-> "item", id |-> data.id] ELSE Null

\* parseEpisode(episodeData.data?.mainContent): null without an audio URL.
parseEpisode(data) ==
    IF data.kind = "episode" /\ data.audio THEN [kind |-> "item", id |-> data.id] ELSE Null

\* fetchedMap.get(`episode:${id}`): of the fetch results with data for id, the last.
FetchedGet(bt, id) ==
    LET js == {j \in 1..Len(bt.uncachedIds) : bt.uncachedIds[j] = id /\ bt.item[j].data # Null}
    IN  IF js = {} THEN Undefined
        ELSE bt.item[CHOOSE j \in js : \A i \in js : i <= j].data

\* cachedEpisodes.get(cacheKey) || fetchedMap.get(cacheKey)
EpisodeDataOf(bt, id) ==
    IF MapGet(bt.cached, EpisodeKey(id)) # Undefined
    THEN MapGet(bt.cached, EpisodeKey(id))
    ELSE FetchedGet(bt, id)

\* Mutant: the merge reads the cache again instead of using what the batch
\* lookup returned.
CombineFromCache(bt) ==
    LET dataOf(id) == IF LruHas(cache, EpisodeKey(id), now)
                      THEN LruGetPeek(cache, EpisodeKey(id), now).val
                      ELSE FetchedGet(bt, id)
        mapped == [i \in 1..Len(bt.recentIds) |->
                      IF dataOf(bt.recentIds[i]) # Undefined
                      THEN parseEpisode(dataOf(bt.recentIds[i]))
                      ELSE Null]
    IN  SelectSeq(mapped, LAMBDA ep : ep # Null)

\* Mutant: the cached episodes are listed first, then the fetched ones.
CombineCachedFirst(bt) ==
    LET mapped == [i \in 1..Len(bt.recentIds) |->
                      IF EpisodeDataOf(bt, bt.recentIds[i]) # Undefined
                      THEN parseEpisode(EpisodeDataOf(bt, bt.recentIds[i]))
                      ELSE Null]
        eps == SelectSeq(mapped, LAMBDA ep : ep # Null)
    IN  SelectSeq(eps, LAMBDA ep : MapHas(bt.cached, EpisodeKey(ep.id)))
            \o SelectSeq(eps, LAMBDA ep : ~MapHas(bt.cached, EpisodeKey(ep.id)))

\* recentIds.map(...).filter(ep => ep !== null)
Combine(bt) ==
    LET mapped == [i \in 1..Len(bt.recentIds) |->
                      IF EpisodeDataOf(bt, bt.recentIds[i]) # Undefined
                      THEN parseEpisode(EpisodeDataOf(bt, bt.recentIds[i]))
                      ELSE Null]
    IN  SelectSeq(mapped, LAMBDA ep : ep # Null)

\* What response.json() rejects with.
JsonError == [NoError EXCEPT !.name = "SyntaxError", !.message = <<"j", "s", "o", "n">>]

\* `Failed to fetch series data: ${error.message}`
ListingFailedLine(error) == [NoLine EXCEPT !.kind = "listing", !.message = error.message]

\* `Failed to fetch episode ${id}: ${error.message}`
EpisodeFailedLine(id, error) ==
    [NoLine EXCEPT !.kind = "item", !.id = id, !.message = error.message]

\* What the catch block of call c of batch bt writes for the error it caught:
\* the listing's line for the listing request, the episode's for the others.
CaughtLog(bt, c, error) ==
    IF c[2] = 0 THEN <<ListingFailedLine(error)>>
    ELSE <<EpisodeFailedLine(bt.uncachedIds[c[2]], error)>>

\* Mutant: the catch block of the listing fetch logs and throws again.
ListingFailedRethrow(bt) ==
    [bt EXCEPT !.pc = "done", !.out = <<>>, !.listing = "failed", !.raised = TRUE]

\* The catch block of the listing fetch: log and return [].
ListingFailed(bt) == [bt EXCEPT !.pc = "done", !.out = <<>>, !.listing = "failed"]

\* Mutant: the catch block of an episode fetch logs and throws again, so that
\* Promise.all rejects and fetchEpisodes throws.
EpisodeFailedRethrow(bt, j) ==
    [bt EXCEPT !.item[j] = [st |-> "done", data |-> Null], !.pc = "done", !.raised = TRUE]

\* The catch block of an episode fetch: log and return {id, data: null}.
EpisodeFailed(bt, j) == [bt EXCEPT !.item[j] = [st |-> "done", data |-> Null]]

\* Mutant: an id that is listed again is left out of the ids to fetch.
UncachedOnce(ids, found) ==
    LET miss == [i \in 1..Len(ids) |->
                    /\ ~MapHas(found, EpisodeKey(ids[i]))
                    /\ \A h \in 1..(i - 1) : ids[h] # ids[i]]
        Pick[i \in 0..Len(ids)] ==
            IF i = 0 THEN <<>>
            ELSE IF miss[i] THEN Append(Pick[i - 1], ids[i]) ELSE Pick[i - 1]
    IN  Pick[Len(ids)]

\* Mutant: the filter keeps every id.
UncachedAll(ids, found) == ids

\* The ids the filter keeps: those whose key the batch lookup did not return.
Uncached(ids, found) == SelectSeq(ids, LAMBDA id : ~MapHas(found, EpisodeKey(id)))

\* `${ERR_API_URL}/vodContent/getContentPageData?contentId=${id}`
ContentUrl(id) == <<"contentId", id>>

RECURSIVE EnqueueAll(_, _, _, _)
\* uncachedIds.map(async id => ... fetchWithRetry ...): call <<b, j>> for the
\* j-th of the ids, for each j up to n.
EnqueueAll(l, b, ids, n) ==
    IF n = 0 THEN l
    ELSE LET m == EnqueueAll(l, b, ids, n - 1)
         IN  [m EXCEPT !.calls[<<b, n>>].pc = "queued",
                       !.calls[<<b, n>>].url = ContentUrl(ids[n]),
                       !.queue = Append(m.queue, <<b, n>>)]

\* A continuation of batch b is due as a microtask: a settled fetchWithRetry
\* it awaits, or a Promise.all whose promises are all resolved.
ListingSettledDue(b) == batch[b].pc = "listing" /\ Settled(calls[<<b, 0>>])
EpisodeSettledDue(b, j) ==
    /\ batch[b].pc = "items"
    /\ j \in 1..Len(batch[b].item)
    /\ batch[b].item[j].st = "fetching"
    /\ Settled(calls[<<b, j>>])
\* Mutant: Promise.all resolves as soon as one of its promises has.
AllResolvedWhenOneIs(b) ==
    /\ batch[b].pc = "items"
    /\ \E j \in 1..Len(batch[b].item) : batch[b].item[j].st = "done"

AllResolved(b) ==
    /\ batch[b].pc = "items"
    /\ \A j \in 1..Len(batch[b].item) : batch[b].item[j].st = "done"
ContinuationDue ==
    \E b \in DOMAIN batch :
        \/ ListingSettledDue(b)
        \/ \E j \in 1..BATCH_CAP : EpisodeSettledDue(b, j)
        \/ AllResolved(b)

\* Lines 853-896, with the series data in hand: flatten, slice, look the
\* episodes up, and start a fetch for each one that is not cached.
StartEpisodes(b, seriesData, c0, how) ==
    LET episodeIds == IF seriesData.kind = "series" THEN seriesData.ids ELSE <<>>
        recentIds == Slice(episodeIds, BATCH_CAP)
        episodeCacheKeys == [i \in 1..Len(recentIds) |-> EpisodeKey(recentIds[i])]
        looked == getCachedBatch(c0, episodeCacheKeys, now)
        uncachedIds == Uncached(recentIds, looked.val)
        n == Len(uncachedIds)
    IN  /\ cache' = looked.cache
        /\ batch' = [batch EXCEPT ![b] =
              [@ EXCEPT !.pc = "items", !.listing = how,
                        !.recentIds = recentIds, !.cached = looked.val,
                        !.uncachedIds = uncachedIds,
                        !.item = [j \in 1..n |-> [st |-> "fetching", data |-> Null]]]]
        /\ SetLimiter(EnqueueAll(Limiter, b, uncachedIds, n))
        /\ ticks' = ticks + n

\* Mutant: the listing is requested whatever the cache holds.
FetchEpisodesAlwaysLists(b) ==
    /\ ~MicrotaskDue /\ ~ContinuationDue
    /\ batch[b].pc = "idle"
    /\ cache' = getCached(cache, SeriesKey, now).cache
    /\ batch' = [batch EXCEPT ![b].pc = "listing"]
    /\ Enqueue(<<b, 0>>, ContentUrl(SERIES_CONTENT_ID))
    /\ UNCHANGED <<config, now, ret>>

\* fetchEpisodes() is called: the series data is looked up; on a miss the
\* listing is requested.
FetchEpisodesCall(b) ==
    /\ ~MicrotaskDue /\ ~ContinuationDue
    /\ batch[b].pc = "idle"
    /\ LET got == getCached(cache, SeriesKey, now)
       IN  IF got.val # Undefined
           THEN StartEpisodes(b, got.val, got.cache, "cached")
           ELSE /\ cache' = got.cache
                /\ batch' = [batch EXCEPT ![b].pc = "listing"]
                /\ Enqueue(<<b, 0>>, ContentUrl(SERIES_CONTENT_ID))
    /\ UNCHANGED <<config, now, ret>>

\* fetchEpisodes() called by a caller other than the feed's request handler
\* (scripts/test-feed.js, scripts/generate-feed.js).
FetchEpisodes(b) ==
    /\ FetchEpisodesCall(b)
    /\ UNCHANGED <<feedCache, res>>

\* await fetchWithRetry(seriesUrl) is over: on a response the body is read,
\* on an error the catch block returns [].
ListingSettled(b) ==
    /\ ListingSettledDue(b)
    /\ batch' = [batch EXCEPT ![b] =
          IF calls[<<b, 0>>].pc = "raised" THEN ListingFailed(@)
          ELSE [@ EXCEPT !.pc = "listingJson"]]
    /\ calls' = [calls EXCEPT ![<<b, 0>>] = Taken(@)]
    /\ UNCHANGED <<feedCache, res, config, now, cache, ret, queue, activeCount, ticks>>

\* await response.json() of the listing is over.
ListingJson(b, body) ==
    /\ ~MicrotaskDue /\ ~ContinuationDue
    /\ batch[b].pc = "listingJson"
    /\ IF body = Malformed
       THEN /\ batch' = [batch EXCEPT ![b] = ListingFailed(@)]
            /\ UNCHANGED <<cache, calls, queue, activeCount, ticks>>
       ELSE StartEpisodes(b, body, setCache(cache, SeriesKey, body, 0, now), "fetched")
    /\ UNCHANGED <<feedCache, res, config, now, ret>>

\* await fetchWithRetry(contentUrl) of the j-th uncached id is over.
EpisodeSettled(b, j) ==
    /\ EpisodeSettledDue(b, j)
    /\ batch' = [batch EXCEPT ![b] =
          IF calls[<<b, j>>].pc = "raised" THEN EpisodeFailed(@, j)
          ELSE [@ EXCEPT !.item[j].st = "parsing"]]
    /\ calls' = [calls EXCEPT ![<<b, j>>] = Taken(@)]
    /\ UNCHANGED <<feedCache, res, config, now, cache, ret, queue, activeCount, ticks>>

\* Mutant: a body that does not parse is stored as the episode's data.
EpisodeJsonStoresAny(b, j, body) ==
    /\ ~MicrotaskDue /\ ~ContinuationDue
    /\ batch[b].pc = "items"
    /\ j \in 1..Len(batch[b].item)
    /\ batch[b].item[j].st = "parsing"
    /\ body \in EpisodeBodies(batch[b].uncachedIds[j])
    /\ cache' = setCache(cache, EpisodeKey(batch[b].uncachedIds[j]), body, 0, now)
    /\ batch' = [batch EXCEPT ![b].item[j] =
                    [st |-> "done", data |-> IF body = Malformed THEN Null ELSE body]]
    /\ UNCHANGED <<feedCache, res, config, now, ret, calls, queue, activeCount, ticks>>

\* Mutant: the parsed episode is returned without being stored.
EpisodeJsonNoStore(b, j, body) ==
    /\ ~MicrotaskDue /\ ~ContinuationDue
    /\ batch[b].pc = "items"
    /\ j \in 1..Len(batch[b].item)
    /\ batch[b].item[j].st = "parsing"
    /\ body \in EpisodeBodies(batch[b].uncachedIds[j])
    /\ batch' = [batch EXCEPT ![b] =
          IF body = Malformed THEN EpisodeFailed(@, j)
          ELSE [@ EXCEPT !.item[j] = [st |-> "done", data |-> body]]]
    /\ UNCHANGED <<feedCache, res, config, now, cache, ret, calls, queue, activeCount, ticks>>

\* await response.json() of the j-th uncached id is over.
EpisodeJson(b, j, body) ==
    /\ ~MicrotaskDue /\ ~ContinuationDue
    /\ batch[b].pc = "items"
    /\ j \in 1..Len(batch[b].item)
    /\ batch[b].item[j].st = "parsing"
    /\ body \in EpisodeBodies(batch[b].uncachedIds[j])
    /\ IF body = Malformed
       THEN /\ batch' = [batch EXCEPT ![b] = EpisodeFailed(@, j)]
            /\ UNCHANGED cache
       ELSE /\ cache' = setCache(cache, EpisodeKey(batch[b].uncachedIds[j]), body, 0, now)
            /\ batch' = [batch EXCEPT ![b].item[j] = [st |-> "done", data |-> body]]
    /\ UNCHANGED <<feedCache, res, config, now, ret, calls, queue, activeCount, ticks>>

\* await Promise.all(...) is over: the episodes are combined and returned.
Finish(b) ==
    /\ AllResolved(b)
    /\ batch' = [batch EXCEPT ![b] = [@ EXCEPT !.pc = "done", !.out = Combine(batch[b])]]
    /\ UNCHANGED <<feedCache, res, config, now, cache, ret, calls, queue, activeCount, ticks>>

\* The caller is done with the result; the next request may start a batch.
Reset(b) ==
    /\ batch[b].pc = "done"
    /\ batch' = [batch EXCEPT ![b] = IdleBatch]
    /\ calls' = [c \in DOMAIN calls |-> IF c[1] = b THEN IdleCall ELSE calls[c]]
    /\ UNCHANGED <<feedCache, res, config, now, cache, ret, queue, activeCount, ticks>>

\* Events of the calls a batch makes.
BatchRespond(c, o) ==
    /\ ~ContinuationDue
    /\ Respond(c, o)

BatchWake(c) ==
    /\ ~ContinuationDue
    /\ Wake(c)

\* Time passes while batches run, up to BatchMaxNow.
BatchTick ==
    /\ ~MicrotaskDue /\ ~ContinuationDue
    /\ now < BatchMaxNow
    /\ Tick

----------------------------------------------------------------------------
(* index.js: the feed cache and handleFeedRequest.  Request r runs batch r. *)
(* The window of the feed cache (30000 ms in the program) is scaled down    *)
(* like the cache's TTL.  A feed is the list of its items: generateRSS      *)
(* writes one <item> per episode (the episodes of the model have no dates,  *)
(* so none is dropped as a future one).                                     *)

FEED_CACHE_MS == 2

Requests == {1, 2}
RequestCalls == {<<r, j>> : r \in Requests, j \in 0..BATCH_CAP}

\* let feedCache = { data: null, timestamp: 0 }
NoFeed == [data |-> Null, timestamp |-> 0]

\* What a request was answered: the status, the body, and whether the body
\* came from the feed cache; Pending while the handler awaits fetchEpisodes.
NoResponse == [status |-> 0, body |-> Null, from |-> "none"]
Pending == [status |-> 0, body |-> Null, from |-> "pending"]

generateRSS(episodes) == [kind |-> "rss", items |-> episodes]

\* Mutant: a feed is served from the cache up to and including the end of
\* the window.
getCachedFeedInclusive(fc, t) ==
    IF fc.data # Null /\ t - fc.timestamp <= FEED_CACHE_MS THEN fc.data ELSE Null

\* getCachedFeed()
getCachedFeed(fc, t) ==
    IF fc.data # Null /\ t - fc.timestamp < FEED_CACHE_MS THEN fc.data ELSE Null

\* setCachedFeed(data): the feed cache afterwards.
setCachedFeed(data, t) == [data |-> data, timestamp |-> t]

\* The continuation of a handler is due: the fetchEpisodes it awaits is over.
AnswerDue == \E r \in Requests : res[r] = Pending /\ batch[r].pc = "done"

\* Mutant: a request that arrives while a batch is running is answered with
\* what the feed cache holds, without a batch of its own.
HandleFeedRequestCoalesced(r) ==
    /\ ~MicrotaskDue /\ ~ContinuationDue /\ ~AnswerDue
    /\ res[r] # Pending
    /\ IF getCachedFeed(feedCache, now) # Null \/ \E q \in Requests : res[q] = Pending
       THEN /\ res' = [res EXCEPT ![r] = [status |-> 200, body |-> feedCache.data,
                                           from |-> "cache"]]
            /\ UNCHANGED <<config, now, cache, ret, calls, queue, activeCount, ticks, batch>>
       ELSE /\ res' = [res EXCEPT ![r] = Pending]
            /\ FetchEpisodesCall(r)
    /\ UNCHANGED feedCache

\* handleFeedRequest up to its await: the feed is served from the feed cache,
\* or fetchEpisodes is called.
HandleFeedRequest(r) ==
    /\ ~MicrotaskDue /\ ~ContinuationDue /\ ~AnswerDue
    /\ res[r] # Pending
    /\ LET rss == getCachedFeed(feedCache, now)
       IN  IF rss # Null
           THEN /\ res' = [res EXCEPT ![r] = [status |-> 200, body |-> rss, from |-> "cache"]]
                /\ UNCHANGED <<config, now, cache, ret, calls, queue, activeCount, ticks, batch>>
           ELSE /\ res' = [res EXCEPT ![r] = Pending]
                /\ FetchEpisodesCall(r)
    /\ UNCHANGED feedCache

\* Mutant: only a feed that has items is stored in the feed cache.
AnswerStoresItemsOnly(r) ==
    /\ res[r] = Pending
    /\ batch[r].pc = "done"
    /\ IF batch[r].raised
       THEN /\ res' = [res EXCEPT ![r] = [status |-> 500, body |-> Null, from |-> "none"]]
            /\ UNCHANGED feedCache
       ELSE /\ res' = [res EXCEPT ![r] = [status |-> 200, body |-> generateRSS(batch[r].out),
                                           from |-> "batch"]]
            /\ feedCache' = IF batch[r].out = <<>> THEN feedCache
                             ELSE setCachedFeed(generateRSS(batch[r].out), now)
    /\ batch' = [batch EXCEPT ![r] = IdleBatch]
    /\ calls' = [c \in DOMAIN calls |-> IF c[1] = r THEN IdleCall ELSE calls[c]]
    /\ UNCHANGED <<config, now, cache, ret, queue, activeCount, ticks>>

\* handleFeedRequest after its await: the feed is generated from the episodes
\* fetchEpisodes returned, stored in the feed cache and sent with status 200;
\* had fetchEpisodes thrown, the catch block would answer 500.
Answer(r) ==
    /\ res[r] = Pending
    /\ batch[r].pc = "done"
    /\ IF batch[r].raised
       THEN /\ res' = [res EXCEPT ![r] = [status |-> 500, body |-> Null, from |-> "none"]]
            /\ UNCHANGED feedCache
       ELSE /\ res' = [res EXCEPT ![r] = [status |-> 200, body |-> generateRSS(batch[r].out),
                                           from |-> "batch"]]
            /\ feedCache' = setCachedFeed(generateRSS(batch[r].out), now)
    /\ batch' = [batch EXCEPT ![r] = IdleBatch]
    /\ calls' = [c \in DOMAIN calls |-> IF c[1] = r THEN IdleCall ELSE calls[c]]
    /\ UNCHANGED <<config, now, cache, ret, queue, activeCount, ticks>>

\* Events of the calls and batches of requests; the continuation of a handler
\* runs before any of them.
FeedStep(A) == ~AnswerDue /\ A

\* Time passes while requests are handled.
FeedTick ==
    /\ ~AnswerDue
    /\ BatchTick

----------------------------------------------------------------------------
(* The settings: each module reads its environment variables once, when it *)
(* is loaded, as  Math.min(Math.max(parseInt(raw, 10) || default, lo), hi). *)
(* A variable's value is a string, here a sequence of characters; the      *)
(* empty sequence stands for a variable that is not set.                   *)

Settings ==
    {"MAX_CONCURRENT_REQUESTS", "MAX_RETRIES", "RETRY_DELAY_MS",
     "CACHE_DURATION_SECONDS", "MAX_CACHE_ENTRIES", "FETCH_TIMEOUT_SECONDS"}

\* default, lowest and highest value of each setting, and the factor that
\* turns it into the unit the program works in.
SettingRange ==
    [s \in Settings |->
        CASE s = "MAX_CONCURRENT_REQUESTS" -> [default |-> 5, lo |-> 1, hi |-> 20, scale |-> 1]
          [] s = "MAX_RETRIES" -> [default |-> 2, lo |-> 0, hi |-> 5, scale |-> 1]
          [] s = "RETRY_DELAY_MS" -> [default |-> 500, lo |-> 100, hi |-> 5000, scale |-> 1]
          [] s = "CACHE_DURATION_SECONDS" -> [default |-> 3600, lo |-> 60, hi |-> 86400, scale |-> 1000]
          [] s = "MAX_CACHE_ENTRIES" -> [default |-> 200, lo |-> 10, hi |-> 1000, scale |-> 1]
          [] s = "FETCH_TIMEOUT_SECONDS" -> [default |-> 10, lo |-> 1, hi |-> 30, scale |-> 1000]]

NotSet == <<>>

\* The values the environment gives a setting.
Raws ==
    {NotSet, <<"0">>, <<"3">>, <<"2", "5">>, <<"2", "5", "0">>,
     <<"9", "9", "9", "9", "9">>, <<"-", "4">>, <<"a", "b", "c">>, <<"1", "2", "p", "x">>}

IsDigit(ch) == \E d \in 1..10 : DigitChars[d] = ch
DigitValue(ch) == (CHOOSE d \in 1..10 : DigitChars[d] = ch) - 1

\* The first position of str at or after i that holds no blank.
RECURSIVE SkipBlanks(_, _)
SkipBlanks(str, i) ==
    IF i <= Len(str) /\ str[i] = " " THEN SkipBlanks(str, i + 1) ELSE i

\* The number the digits of str from position i on spell, after acc.
RECURSIVE ParseDigits(_, _, _)
ParseDigits(str, i, acc) ==
    IF i > Len(str) \/ ~IsDigit(str[i]) THEN acc
    ELSE ParseDigits(str, i + 1, acc * 10 + DigitValue(str[i]))

NaN == [nan |-> TRUE, n |-> 0]

\* parseInt(raw, 10): blanks, a sign, then digits up to the first other
\* character; NaN when there is no digit.
ParseInt(raw) ==
    LET i == SkipBlanks(raw, 1)
        signed == i <= Len(raw) /\ raw[i] \in {"-", "+"}
        j == IF signed THEN i + 1 ELSE i
    IN  IF j > Len(raw) \/ ~IsDigit(raw[j]) THEN NaN
        ELSE [nan |-> FALSE,
              n |-> (IF signed /\ raw[i] = "-" THEN -1 ELSE 1) * ParseDigits(raw, j, 0)]

\* x || d : NaN and 0 are falsy.
OrDefault(x, d) == IF x.nan \/ x.n = 0 THEN d ELSE x.n

Min(a, b) == IF a < b THEN a ELSE b
Max(a, b) == IF a > b THEN a ELSE b

\* The value a module makes of a setting.
Effective(s, raw) ==
    LET r == SettingRange[s]
    IN  Min(Max(OrDefault(ParseInt(raw), r.default), r.lo), r.hi) * r.scale

\* The process starts in environment env: every module computes its settings.
LoadConfig(env) ==
    [env |-> env,
     maxConcurrent |-> Effective("MAX_CONCURRENT_REQUESTS", env["MAX_CONCURRENT_REQUESTS"]),
     maxRetries |-> Effective("MAX_RETRIES", env["MAX_RETRIES"]),
     initialRetryDelayMs |-> Effective("RETRY_DELAY_MS", env["RETRY_DELAY_MS"]),
     ttlMs |-> Effective("CACHE_DURATION_SECONDS", env["CACHE_DURATION_SECONDS"]),
     maxSize |-> Effective("MAX_CACHE_ENTRIES", env["MAX_CACHE_ENTRIES"]),
     fetchTimeoutMs |-> Effective("FETCH_TIMEOUT_SECONDS", env["FETCH_TIMEOUT_SECONDS"])]

EmptyEnv == [s \in Settings |-> NotSet]

\* The environments the process is started in: at most two settings are set.
Envs ==
    {[EmptyEnv EXCEPT ![s1] = r1, ![s2] = r2] :
        s1 \in Settings, s2 \in Settings, r1 \in Raws, r2 \in Raws}

\* The process is started (again) in environment env.
Start(env) ==
    /\ config' = LoadConfig(env)
    /\ UNCHANGED <<feedCache, res, now, cache, ret, calls, queue, activeCount, ticks, batch>>

----------------------------------------------------------------------------
(* The specifications.                                                     *)

Init ==
    /\ now = 1
    /\ cache = <<>>
    /\ ret = NoRet
    /\ calls = [c \in CallIds |-> IdleCall]
    /\ queue = <<>>
    /\ activeCount = 0
    /\ ticks = 0
    /\ batch = [b \in Batches |-> IdleBatch]
    /\ config = LoadConfig(EmptyEnv)
    /\ feedCache = NoFeed
    /\ res = [r \in Requests |-> NoResponse]

\* The cache under any sequence of calls of its interface.
NextCache ==
    \/ \E w \in TestWrites : \E ttlMs \in TtlArgsFor(w) : SetCacheOp(w[1], w[2], ttlMs)
    \/ \E k \in TestKeys : GetCachedOp(k)
    \/ \E keys \in BatchKeyLists : GetCachedBatchOp(keys)
    \/ \E k \in TestKeys : HasCacheOp(k)
    \/ \E k \in TestKeys : DeleteCacheOp(k)
    \/ ClearCacheOp
    \/ Tick

SpecCache == Init /\ [][NextCache]_vars

\* The settings under any environment the process is started in.
NextConfig == \E env \in Envs : Start(env)

SpecConfig == Init /\ [][NextConfig]_vars

\* fetchWithRetry under any interleaving of direct callers.
NextFetch ==
    \/ \E c \in DirectCalls : Submit(c)
    \/ TryStart
    \/ \E c \in DirectCalls : \E o \in Menu(c) : Respond(c, o)
    \/ \E c \in DirectCalls : Wake(c)

SpecFetch == Init /\ [][NextFetch]_vars

\* The outcomes under which progress is checked: one caller's server answers
\* 200 or 500 (the call returns, retries, or uses its retries up), the others'
\* 200 or 404 (the call returns or raises at once).
LiveMenu(c) == IF c = <<0, 1>> THEN BasicOutcomes ELSE ShortOutcomes

NextFetchLive ==
    \/ \E c \in DirectCalls : Submit(c)
    \/ TryStart
    \/ \E c \in DirectCalls : \E o \in LiveMenu(c) : Respond(c, o)
    \/ \E c \in DirectCalls : Wake(c)

\* The event loop runs every microtask that is due, every request settles
\* and every backoff timer fires.
FairFetch ==
    /\ WF_vars(TryStart)
    /\ \A c \in DirectCalls :
          /\ WF_vars(\E o \in LiveMenu(c) : Respond(c, o))
          /\ WF_vars(Wake(c))

SpecFetchLive == Init /\ [][NextFetchLive]_vars /\ FairFetch

\* Two callers of fetchWithRetry whose requests come to any outcome, under the
\* same scheduling: every request settles or is aborted by its timeout.
RetryCalls == {<<0, 1>>, <<0, 2>>}

NextRetryLive ==
    \/ \E c \in RetryCalls : Submit(c)
    \/ TryStart
    \/ \E c \in RetryCalls : \E o \in Outcomes : Respond(c, o)
    \/ \E c \in RetryCalls : Wake(c)

FairRetry ==
    /\ WF_vars(TryStart)
    /\ \A c \in RetryCalls :
          /\ WF_vars(\E o \in Outcomes : Respond(c, o))
          /\ WF_vars(Wake(c))

SpecRetryLive == Init /\ [][NextRetryLive]_vars /\ FairRetry

\* Two callers of fetchWithRetry: the requests of the first come to any
\* outcome, those with a status outside 2xx, 4xx and 5xx included, the
\* requests of the second to 200 or 500.
ClassifyMenu(c) == IF c = <<0, 1>> THEN Outcomes \cup Redirections ELSE BasicOutcomes

NextClassify ==
    \/ \E c \in RetryCalls : Submit(c)
    \/ TryStart
    \/ \E c \in RetryCalls : \E o \in ClassifyMenu(c) : Respond(c, o)
    \/ \E c \in RetryCalls : Wake(c)

SpecClassify == Init /\ [][NextClassify]_vars

\* fetchEpisodes, one batch after another, over the cache and the limiter.
Next ==
    \/ \E b \in Batches : FetchEpisodes(b)
    \/ TryStart
    \/ \E c \in BatchCalls : \E o \in Menu(c) : BatchRespond(c, o)
    \/ \E c \in BatchCalls : BatchWake(c)
    \/ \E b \in Batches : ListingSettled(b)
    \/ \E b \in Batches : \E body \in ListingBodies : ListingJson(b, body)
    \/ \E b \in Batches : \E j \in 1..BATCH_CAP : EpisodeSettled(b, j)
    \/ \E b \in Batches : \E j \in 1..BATCH_CAP :
          \E body \in AllEpisodeBodies : EpisodeJson(b, j, body)
    \/ \E b \in Batches : Finish(b)
    \/ \E b \in Batches : Reset(b)
    \/ BatchTick

Spec == Init /\ [][Next]_vars

\* The outcomes under which the progress of a batch is checked: the listing
\* request gets its response or is aborted by its timeout, the first episode
\* request is answered 200 or 500 and the others 200 or 404.
BatchLiveMenu(c) ==
    IF c[2] = 0 THEN {Response(200, TextOK), Timeout}
    ELSE IF c[2] = 1 THEN BasicOutcomes
    ELSE ShortOutcomes

\* fetchEpisodes, one batch after another, at one time of the clock.
NextBatchLive ==
    \/ \E b \in Batches : FetchEpisodes(b)
    \/ TryStart
    \/ \E c \in BatchCalls : \E o \in BatchLiveMenu(c) : BatchRespond(c, o)
    \/ \E c \in BatchCalls : BatchWake(c)
    \/ \E b \in Batches : ListingSettled(b)
    \/ \E b \in Batches : \E body \in ListingBodies : ListingJson(b, body)
    \/ \E b \in Batches : \E j \in 1..BATCH_CAP : EpisodeSettled(b, j)
    \/ \E b \in Batches : \E j \in 1..BATCH_CAP :
          \E body \in AllEpisodeBodies : EpisodeJson(b, j, body)
    \/ \E b \in Batches : Finish(b)
    \/ \E b \in Batches : Reset(b)

\* The event loop runs every microtask and continuation that is due, every
\* request settles or is aborted by its timeout, every backoff timer fires
\* and every body is read to its end.
FairBatch ==
    /\ WF_vars(TryStart)
    /\ \A c \in BatchCalls :
          /\ WF_vars(\E o \in BatchLiveMenu(c) : BatchRespond(c, o))
          /\ WF_vars(BatchWake(c))
    /\ \A b \in Batches :
          /\ WF_vars(ListingSettled(b))
          /\ WF_vars(\E body \in ListingBodies : ListingJson(b, body))
          /\ WF_vars(Finish(b))
          /\ \A j \in 1..BATCH_CAP :
                /\ WF_vars(EpisodeSettled(b, j))
                /\ WF_vars(\E body \in AllEpisodeBodies : EpisodeJson(b, j, body))

SpecBatchLive == Init /\ [][NextBatchLive]_vars /\ FairBatch

\* handleFeedRequest under requests that overlap, while time passes.  The
\* upstream answers the request for the listing with 200 or 404 and every
\* episode request with 200, so that no call backs off; it serves one of two
\* listings, and every body parses.
FeedMenu(c) == IF c[2] = 0 THEN ShortOutcomes ELSE {Response(200, TextOK)}
FeedListingBodies == {SeriesData(<<2, 1>>), SeriesData(<<3, 2>>)}
FeedEpisodeBodies == {EpisodeData(id, HasAudio(id)) : id \in Ids}

InitFeed ==
    /\ now = 1
    /\ cache = <<>>
    /\ ret = NoRet
    /\ calls = [c \in RequestCalls |-> IdleCall]
    /\ queue = <<>>
    /\ activeCount = 0
    /\ ticks = 0
    /\ batch = [r \in Requests |-> IdleBatch]
    /\ config = LoadConfig(EmptyEnv)
    /\ feedCache = NoFeed
    /\ res = [r \in Requests |-> NoResponse]

NextFeed ==
    \/ \E r \in Requests : HandleFeedRequest(r)
    \/ \E r \in Requests : Answer(r)
    \/ FeedStep(TryStart)
    \/ \E c \in RequestCalls : \E o \in FeedMenu(c) : FeedStep(BatchRespond(c, o))
    \/ \E r \in Requests : FeedStep(ListingSettled(r))
    \/ \E r \in Requests : \E body \in FeedListingBodies : FeedStep(ListingJson(r, body))
    \/ \E r \in Requests : \E j \in 1..BATCH_CAP : FeedStep(EpisodeSettled(r, j))
    \/ \E r \in Requests : \E j \in 1..BATCH_CAP :
          \E body \in FeedEpisodeBodies : FeedStep(EpisodeJson(r, j, body))
    \/ \E r \in Requests : FeedStep(Finish(r))
    \/ FeedTick

SpecFeed == InitFeed /\ [][NextFeed]_vars

\* The same at one time of the clock, where the first episode request of a
\* batch is answered 200 or 404 as well; the event loop runs every microtask
\* and continuation that is due, every request gets its response and every
\* body is read to its end.
FeedLiveMenu(c) == IF c[2] <= 1 THEN ShortOutcomes ELSE {Response(200, TextOK)}

NextFeedLive ==
    \/ \E r \in Requests : HandleFeedRequest(r)
    \/ \E r \in Requests : Answer(r)
    \/ FeedStep(TryStart)
    \/ \E c \in RequestCalls : \E o \in FeedLiveMenu(c) : FeedStep(BatchRespond(c, o))
    \/ \E r \in Requests : FeedStep(ListingSettled(r))
    \/ \E r \in Requests : \E body \in FeedListingBodies : FeedStep(ListingJson(r, body))
    \/ \E r \in Requests : \E j \in 1..BATCH_CAP : FeedStep(EpisodeSettled(r, j))
    \/ \E r \in Requests : \E j \in 1..BATCH_CAP :
          \E body \in FeedEpisodeBodies : FeedStep(EpisodeJson(r, j, body))
    \/ \E r \in Requests : FeedStep(Finish(r))

FairFeed ==
    /\ WF_vars(FeedStep(TryStart))
    /\ \A c \in RequestCalls : WF_vars(\E o \in FeedLiveMenu(c) : FeedStep(BatchRespond(c, o)))
    /\ \A r \in Requests :
          /\ WF_vars(Answer(r))
          /\ WF_vars(FeedStep(ListingSettled(r)))
          /\ WF_vars(\E body \in FeedListingBodies : FeedStep(ListingJson(r, body)))
          /\ WF_vars(FeedStep(Finish(r)))
          /\ \A j \in 1..BATCH_CAP :
                /\ WF_vars(FeedStep(EpisodeSettled(r, j)))
                /\ WF_vars(\E body \in FeedEpisodeBodies : FeedStep(EpisodeJson(r, j, body)))

SpecFeedLive == InitFeed /\ [][NextFeedLive]_vars /\ FairFeed

----------------------------------------------------------------------------
(* Properties of fetchWithRetry and the limiter (under SpecFetch).         *)

\* The calls that are inside the limited function: started and not settled.
Running == {c \in CallIds : calls[c].pc \in {"inflight", "sleeping"}}

AllRetryable(h) == \A i \in 1..Len(h) : h[i] = "retryable"

\* C1: in every reachable state the limiter's activeCount, and the number of
\* calls actually running inside the limiter, is at most
\* MAX_CONCURRENT_REQUESTS, however many calls were submitted.
C1_ConcurrencyBound ==
    /\ activeCount <= MAX_CONCURRENT_REQUESTS
    /\ Cardinality(Running) <= MAX_CONCURRENT_REQUESTS
    /\ activeCount = Cardinality(Running)

\* C1 witness: every slot is held while a further submitted call waits.
C1_Witness ==
    /\ activeCount = MAX_CONCURRENT_REQUESTS
    /\ Len(queue) > 0
    /\ ticks = 0

\* C2: a call whose every attempt failed with a retryable failure keeps
\* retrying until it has made exactly MAX_RETRIES + 1 requests, and then has
\* raised: it never returns, never raises earlier, never makes another request.
C2_RetryCount ==
    \A c \in DirectCalls :
        (Len(calls[c].hist) > 0 /\ AllRetryable(calls[c].hist)) =>
            /\ calls[c].requests <= MAX_RETRIES + 1
            /\ calls[c].pc # "returned"
            /\ (calls[c].pc = "raised") <=> (Len(calls[c].hist) = MAX_RETRIES + 1)
            /\ calls[c].pc = "raised" => calls[c].requests = MAX_RETRIES + 1

\* C2 witness: a call that met HTTP 500 three times and raised.
C2_Witness ==
    \E c \in DirectCalls :
        /\ calls[c].pc = "raised"
        /\ calls[c].hist = <<"retryable", "retryable", "retryable">>
        /\ calls[c].requests = 3
        /\ calls[c].result.status = 500

\* C3, as claimed: when a request fails with a client error (4xx other than
\* 429), that request is the call's last one and the call has raised.
C3_ClientErrorRaises ==
    \A c \in DirectCalls : \A i \in 1..Len(calls[c].hist) :
        calls[c].hist[i] = "client" =>
            /\ i = Len(calls[c].hist)
            /\ calls[c].pc = "raised"
            /\ calls[c].requests = i

\* C4: when the first k-1 attempts failed with retryable failures and attempt
\* k got an ok response, the call has returned that response after exactly k
\* requests, and makes no further one.
C4_SuccessAfterRetries ==
    \A c \in DirectCalls :
        LET h == calls[c].hist
        IN  (Len(h) > 0 /\ h[Len(h)] = "ok" /\ AllRetryable(SubSeq(h, 1, Len(h) - 1))) =>
                /\ calls[c].pc = "returned"
                /\ calls[c].requests = Len(h)
                /\ Len(h) <= MAX_RETRIES + 1
                /\ Ok(calls[c].result)

\* C4 witness: a 429 followed by a 200 returned after exactly 2 requests.
C4_Witness ==
    \E c \in DirectCalls :
        /\ calls[c].pc = "returned"
        /\ calls[c].hist = <<"retryable", "ok">>
        /\ calls[c].lastError.status = 429
        /\ calls[c].result.status = 200
        /\ calls[c].requests = 2

----------------------------------------------------------------------------
(* Properties of fetchEpisodes (under Spec).                               *)

\* The ids of the episodes a batch returned, in output order.
OutIds(bt) == [k \in 1..Len(bt.out) |-> bt.out[k].id]

Range(seq) == {seq[i] : i \in 1..Len(seq)}

\* The batch looked the id up and found it in the cache.
Hit(bt, id) == MapHas(bt.cached, EpisodeKey(id))

\* A fetch of the id by this batch got its data.
Fetched(bt, id) ==
    \E j \in 1..Len(bt.uncachedIds) :
        bt.uncachedIds[j] = id /\ bt.item[j].st = "done" /\ bt.item[j].data # Null

\* The id was fetched by this batch and no fetch of it got data.
FetchFailed(bt, id) ==
    /\ id \in Range(bt.uncachedIds)
    /\ ~Fetched(bt, id)

\* C5: the episodes fetchEpisodes returns are in the order of their ids in
\* the id list: the output is the id list restricted to the ids that are in
\* the output, whatever was cached and in whatever order the fetches ended.
C5_OrderPreserved ==
    \A b \in Batches :
        batch[b].pc = "done" =>
            OutIds(batch[b]) =
                SelectSeq(batch[b].recentIds, LAMBDA id : id \in Range(OutIds(batch[b])))

\* C5 witness: two ids were both fetched, the second one's fetch ended first
\* (its entry is the older one in the cache), and the output has the two in
\* listing order.
C5_Witness ==
    \E b \in Batches :
        /\ batch[b].pc = "done"
        /\ Len(batch[b].uncachedIds) = 2
        /\ OutIds(batch[b]) = batch[b].uncachedIds
        /\ batch[b].out[1].id # batch[b].out[2].id
        /\ Len(cache) = 2
        /\ cache[1].key = EpisodeKey(batch[b].out[2].id)
        /\ cache[2].key = EpisodeKey(batch[b].out[1].id)

C7_ListingFailure ==
    \A b \in Batches :
        LET failed == \/ batch[b].listing = "failed"
                      \/ calls[<<b, 0>>].pc = "raised" /\ batch[b].pc # "listing"
        IN  failed =>
                /\ batch[b].pc = "done"
                /\ batch[b].out = <<>>
                /\ ~batch[b].raised
                /\ batch[b].item = <<>>
                /\ \A j \in 1..BATCH_CAP : calls[<<b, j>>] = IdleCall

\* C7 witness: the listing fetch used up its retries and the batch returned [].
C7_Witness ==
    \E b \in Batches :
        /\ batch[b].pc = "done"
        /\ batch[b].listing = "failed"
        /\ calls[<<b, 0>>].pc = "raised"
        /\ calls[<<b, 0>>].requests = MAX_RETRIES + 1

----------------------------------------------------------------------------
(* Properties of the response cache (under SpecCache).                     *)

\* The keys of the entry list c, least recently used first.
KeysOf(c) == [i \in 1..Len(c) |-> c[i].key]

\* C8: the cache never holds more entries than MAX_CACHE_ENTRIES (and never
\* two entries for one key), whatever operations have run.
C8_CapacityBound ==
    /\ Len(cache) <= MAX_CACHE_ENTRIES
    /\ Cardinality(Range(KeysOf(cache))) = Len(cache)

\* C8 witness: the cache is full after a set that had to evict.
C8_Witness ==
    /\ Len(cache) = MAX_CACHE_ENTRIES
    /\ ret.op = "set"
    /\ ret.evicted # <<>>

\* C9: a set of a key that is not in the cache, on a full cache, evicts the
\* least recently used entry and nothing else: afterwards the cache holds the
\* other entries in their order, then the written key.
C9_EvictsLeastRecentlyUsed ==
    [][\A w \in TestWrites, ttlMs \in TtlArgs :
          (/\ ret'.op = "set"
           /\ ret'.key = w[1]
           /\ SetCacheOp(w[1], w[2], ttlMs)
           /\ KeyIndex(cache, w[1]) = 0
           /\ Len(cache) = MAX_CACHE_ENTRIES)
          => /\ KeysOf(cache') = Append(Tail(KeysOf(cache)), w[1])
             /\ SubSeq(cache', 1, Len(cache') - 1) = Tail(cache)
             /\ cache'[Len(cache')].value = w[2]]_vars

\* C9 witness: set(a), set(b), set(c) with capacity 2 has kept b and c and
\* evicted a.
C9_Witness ==
    /\ MAX_CACHE_ENTRIES = 2
    /\ ret.op = "set"
    /\ ret.key = EpisodeKey(3)
    /\ ret.evicted = EpisodeKey(1)
    /\ KeysOf(cache) = <<EpisodeKey(2), EpisodeKey(3)>>

\* A step of getCached or of getCachedBatch.
IsRead ==
    \/ ret'.op = "get" /\ \E k \in TestKeys : ret'.key = k /\ GetCachedOp(k)
    \/ ret'.op = "getBatch"
         /\ \E keys \in BatchKeyLists : ret'.keys = keys /\ GetCachedBatchOp(keys)

\* The keys whose values a read returned.
Returned(r) ==
    IF r.op = "get" THEN (IF r.val = Undefined THEN {} ELSE {r.key})
    ELSE {p[1] : p \in r.val}

----------------------------------------------------------------------------
(* Properties of the cache's TTL (under SpecCache).                        *)

\* The entry of key k in the entry list c (k is in c).
EntryOf(c, k) == c[KeyIndex(c, k)]

\* What a step of getCached(k), hasCache(k) or getCachedBatch(keys) showed of
\* key k: TRUE when the read returned a value for k (has: returned true).
Shown(r, k) ==
    IF r.op = "get" THEN r.val # Undefined
    ELSE IF r.op = "has" THEN r.val
    ELSE MapHas(r.val, k)

\* The step is a read of key k by getCached, hasCache or getCachedBatch (a
\* batch that names k once).
ReadsKey(k) ==
    \/ ret'.op = "get" /\ ret'.key = k /\ GetCachedOp(k)
    \/ ret'.op = "has" /\ ret'.key = k /\ HasCacheOp(k)
    \/ ret'.op = "getBatch"
         /\ \E keys \in BatchKeyLists :
               /\ ret'.keys = keys
               /\ Cardinality({i \in 1..Len(keys) : keys[i] = k}) = 1
               /\ GetCachedBatchOp(keys)

\* A step of setCache writes an entry stamped with the current time and with
\* the ttl of the call, or the cache-wide one when the call gives none.
SetStampsEntry ==
    \A w \in TestWrites, ttlMs \in TtlArgs :
        (ret'.op = "set" /\ ret'.key = w[1] /\ SetCacheOp(w[1], w[2], ttlMs)) =>
            /\ KeyIndex(cache', w[1]) # 0
            /\ EntryOf(cache', w[1]).start = now
            /\ EntryOf(cache', w[1]).ttl = (IF ttlMs # 0 THEN ttlMs ELSE CACHE_TTL_MS)

\* C11 as stated: an entry is shown by reads while now < insertedAt + ttl and
\* is absent to get, has and getBatch from insertedAt + ttl on.
C11_VisibleBeforeTtl ==
    [][/\ SetStampsEntry
       /\ \A k \in TestKeys :
             (ReadsKey(k) /\ KeyIndex(cache, k) # 0) =>
                 (Shown(ret', k) <=> now < EntryOf(cache, k).start + EntryOf(cache, k).ttl)]_vars

\* C11 amended: an entry is shown by reads while now <= insertedAt + ttl (its
\* age does not exceed its ttl) and is absent to get, has and getBatch once
\* now > insertedAt + ttl; the ttl is the one of the set call when it gives
\* one, the cache-wide one otherwise; get returns the entry's value.
C11_VisibleUntilTtlExceeded ==
    [][/\ SetStampsEntry
       /\ \A k \in TestKeys :
             (ReadsKey(k) /\ KeyIndex(cache, k) # 0) =>
                 /\ Shown(ret', k) <=> now <= EntryOf(cache, k).start + EntryOf(cache, k).ttl
                 /\ (ret'.op = "get" /\ Shown(ret', k)) => ret'.val = EntryOf(cache, k).value]_vars

\* C11 witness: hasCache answered true for an entry that was written with a
\* ttl of its own, longer than the cache-wide one, and whose age has reached
\* that ttl exactly (and exceeds the cache-wide one).
C11_Witness ==
    /\ ret.op = "has"
    /\ ret.val = TRUE
    /\ KeyIndex(cache, ret.key) # 0
    /\ EntryOf(cache, ret.key).ttl > CACHE_TTL_MS
    /\ now = EntryOf(cache, ret.key).start + EntryOf(cache, ret.key).ttl
    /\ now > EntryOf(cache, ret.key).start + CACHE_TTL_MS

\* The step is a setCache of key k.
WritesKey(k) == ret'.op = "set" /\ ret'.key = k /\ now' = now

\* C12: the cache holds for a key the value of the last set of that key (a
\* set replaces the value of an entry that exists, and no other operation
\* changes the value of an entry that stays), and a get or getBatch of a key
\* whose entry is within its TTL returns that value.
C12_ReadsLastWritten ==
    [][/\ \A w \in TestWrites, ttlMs \in TtlArgs :
             (ret'.op = "set" /\ ret'.key = w[1] /\ SetCacheOp(w[1], w[2], ttlMs)) =>
                 /\ KeyIndex(cache', w[1]) # 0
                 /\ EntryOf(cache', w[1]).value = w[2]
       /\ \A k \in TestKeys :
             (KeyIndex(cache, k) # 0 /\ KeyIndex(cache', k) # 0 /\ ~WritesKey(k)) =>
                 EntryOf(cache', k).value = EntryOf(cache, k).value
       /\ \A k \in TestKeys :
             (/\ ReadsKey(k)
              /\ ret'.op # "has"
              /\ KeyIndex(cache, k) # 0
              /\ now <= EntryOf(cache, k).start + EntryOf(cache, k).ttl) =>
                 /\ ret'.op = "get" => ret'.val = EntryOf(cache, k).value
                 /\ ret'.op = "getBatch" => MapGet(ret'.val, k) = EntryOf(cache, k).value]_vars

\* C12 witness: a getBatch returned the second version of episode 1, which a
\* set wrote, together with episode 2.
C12_Witness ==
    /\ ret.op = "getBatch"
    /\ MapGet(ret.val, EpisodeKey(1)) = EpisodeData(1, FALSE)
    /\ MapHas(ret.val, EpisodeKey(2))
    /\ EntryOf(cache, EpisodeKey(1)).value = EpisodeData(1, FALSE)

----------------------------------------------------------------------------
(* Properties of the limiter's slots (under SpecFetch).                    *)

InFlight == {c \in CallIds : calls[c].pc = "inflight"}
Sleeping == {c \in CallIds : calls[c].pc = "sleeping"}

\* C13 as stated: a slot is held only while a request is in flight, so the
\* slots in use are as many as the requests in flight and a call that backs
\* off holds none.
C13_SlotOnlyInFlight == activeCount = Cardinality(InFlight)

\* C13 amended: a call holds one slot from its start until it returns or
\* raises, its backoff delays included: going to sleep and waking up neither
\* free nor take a slot and start no queued call, and a queued call waits as
\* long as MAX_CONCURRENT_REQUESTS calls are in flight or backing off.
C13_SlotHeldWholeCall ==
    [][/\ \A c \in DirectCalls :
             /\ (calls[c].pc = "inflight" /\ calls'[c].pc = "sleeping") =>
                    activeCount' = activeCount /\ queue' = queue
             /\ (calls[c].pc = "sleeping" /\ calls'[c].pc = "inflight") =>
                    activeCount' = activeCount /\ queue' = queue
             /\ (calls[c].pc = "queued" /\ calls'[c].pc = "inflight") =>
                    Cardinality({d \in InFlight \cup Sleeping : ~Settled(calls'[d])})
                        < MAX_CONCURRENT_REQUESTS
       /\ activeCount' = Cardinality(InFlight \cup Sleeping)']_vars

\* C13 witness: every slot is held by a call that is backing off, and a call
\* is waiting in the queue with no start pending.
C13_Witness ==
    /\ Cardinality(Sleeping) = MAX_CONCURRENT_REQUESTS
    /\ activeCount = MAX_CONCURRENT_REQUESTS
    /\ Len(queue) > 0
    /\ ticks = 0

----------------------------------------------------------------------------
(* Properties of the backoff and of the timeout (under SpecFetch).         *)

\* C14: a call never sleeps before attempt 0, and the delay it sleeps before
\* attempt a >= 1 is INITIAL_RETRY_DELAY_MS * 2^(a-1): 500 before attempt 1,
\* 1000 before attempt 2.  The first request follows the start at once, and
\* each later request follows exactly one sleep.
C14_BackoffDoubles ==
    /\ \A c \in DirectCalls :
          /\ calls[c].pc = "sleeping" =>
                /\ calls[c].attempt >= 1
                /\ calls[c].delay = INITIAL_RETRY_DELAY_MS * 2^(calls[c].attempt - 1)
                /\ calls[c].attempt = 1 => calls[c].delay = 500
                /\ calls[c].attempt = 2 => calls[c].delay = 1000
                /\ calls[c].requests = calls[c].attempt
          /\ calls[c].pc = "inflight" => calls[c].requests = calls[c].attempt + 1
          /\ (calls[c].pc = "inflight" /\ calls[c].attempt = 0) => calls[c].delay = 0

\* C14 witness: a call sleeps 1000 before its third request.
C14_Witness ==
    \E c \in DirectCalls :
        /\ calls[c].pc = "sleeping"
        /\ calls[c].attempt = 2
        /\ calls[c].delay = 1000
        /\ calls[c].requests = 2

\* The step is the timeout of the request call c has in flight.
TimesOut(c) ==
    /\ calls[c].pc = "inflight"
    /\ calls'[c].pc \in {"sleeping", "raised"}
    /\ calls'[c].lastError.name = "AbortError"
    /\ Len(calls'[c].hist) = Len(calls[c].hist) + 1

\* C15: a request that times out is a retryable failure: when it was not the
\* last attempt the call backs off and tries again, and when it was the last
\* (request MAX_RETRIES+1) the call raises the abort error; the abort error is
\* never raised earlier, and a call that got a response that is ok after a
\* timeout has returned that response.
C15_TimeoutRetried ==
    [][\A c \in DirectCalls :
          /\ TimesOut(c) =>
                IF calls[c].attempt < MAX_RETRIES
                THEN /\ calls'[c].pc = "sleeping"
                     /\ calls'[c].attempt = calls[c].attempt + 1
                ELSE /\ calls'[c].pc = "raised"
                     /\ calls'[c].result.name = "AbortError"
                     /\ calls'[c].requests = MAX_RETRIES + 1
          /\ (calls'[c].pc = "raised" /\ calls'[c].result.name = "AbortError") =>
                calls'[c].requests = MAX_RETRIES + 1
          /\ (calls'[c].pc = "returned" /\ calls'[c].lastError.name = "AbortError") =>
                Ok(calls'[c].result) /\ calls'[c].requests >= 2]_vars

\* C15 witness: a call has raised the abort error after MAX_RETRIES+1 requests.
C15_Witness ==
    \E c \in DirectCalls :
        /\ calls[c].pc = "raised"
        /\ calls[c].result.name = "AbortError"
        /\ calls[c].lastError.name = "AbortError"
        /\ calls[c].requests = MAX_RETRIES + 1
        /\ AllRetryable(calls[c].hist)

----------------------------------------------------------------------------
(* Properties of the batch's cap and of its output (under Spec).           *)

\* The step in which batch b takes the ids of its listing.
TakesIds(b) == batch[b].pc \in {"idle", "listingJson"} /\ batch'[b].pc = "items"

\* The ids a batch has looked up, fetched or returned are among its recentIds,
\* and it has as many fetches as uncached ids.
WithinRecent(bt) ==
    /\ Len(bt.recentIds) <= BATCH_CAP
    /\ \A p \in bt.cached : \E id \in Range(bt.recentIds) : p[1] = EpisodeKey(id)
    /\ Range(bt.uncachedIds) \subseteq Range(bt.recentIds)
    /\ Len(bt.item) = Len(bt.uncachedIds)
    /\ Range(OutIds(bt)) \subseteq Range(bt.recentIds)
    /\ Len(bt.out) <= BATCH_CAP

\* C16: a batch works on the first BATCH_CAP ids of its listing, in listing
\* order (all of them when the listing is shorter); what it looks up in the
\* cache, what it fetches and what it returns are among these ids, and it
\* starts one fetch per uncached id of these and no other.
C16_BatchCap ==
    [][\A b \in Batches :
          /\ TakesIds(b) =>
                LET ids == EntryOf(cache', SeriesKey).value.ids
                    n == IF Len(ids) < BATCH_CAP THEN Len(ids) ELSE BATCH_CAP
                IN  /\ KeyIndex(cache', SeriesKey) # 0
                    /\ Len(batch'[b].recentIds) = n
                    /\ \A i \in 1..n : batch'[b].recentIds[i] = ids[i]
                    /\ \A j \in 1..BATCH_CAP :
                          (calls'[<<b, j>>].pc # "idle") <=> j <= Len(batch'[b].uncachedIds)
          /\ WithinRecent(batch'[b])]_vars

\* C16 witness: the listing is 2, 1, 3 with a cap of 2; the batch is done, it
\* worked on 2 and 1 and returned one of them, and episode 3 was never
\* fetched (it is not in the cache).
C16_Witness ==
    \E b \in Batches :
        /\ BATCH_CAP = 2
        /\ batch[b].pc = "done"
        /\ KeyIndex(cache, SeriesKey) # 0
        /\ EntryOf(cache, SeriesKey).value.ids = <<2, 1, 3>>
        /\ batch[b].recentIds = <<2, 1>>
        /\ Len(batch[b].out) = 1
        /\ KeyIndex(cache, EpisodeKey(3)) = 0

\* The batch has data for the id: from the cache or from a fetch.
Resolved(bt, id) == Hit(bt, id) \/ Fetched(bt, id)

\* C17 as stated: every id of a finished batch that was a cache hit or whose
\* fetch succeeded has an item in the output.
C17_OmittedOnlyIfFailed ==
    \A b \in Batches :
        (batch[b].pc = "done" /\ batch[b].listing # "failed") =>
            \A id \in Range(batch[b].recentIds) :
                Resolved(batch[b], id) => id \in Range(OutIds(batch[b]))

\* C17 amended: an id of a finished batch has an item in the output exactly
\* when it was a cache hit or its fetch succeeded, and its data has an audio
\* URL; an id whose data has none is left out although the batch has its data.
C17_OmittedIfFailedOrNoAudio ==
    \A b \in Batches :
        (batch[b].pc = "done" /\ batch[b].listing # "failed") =>
            /\ \A id \in Range(batch[b].recentIds) :
                  id \in Range(OutIds(batch[b])) <=>
                      (Resolved(batch[b], id) /\ EpisodeDataOf(batch[b], id).audio)
            /\ Len(batch[b].out) =
                  Cardinality({i \in 1..Len(batch[b].recentIds) :
                                  /\ Resolved(batch[b], batch[b].recentIds[i])
                                  /\ EpisodeDataOf(batch[b], batch[b].recentIds[i]).audio})

\* C17 witness: a batch fetched episode 3, which has no audio URL, and another
\* episode; it returned the other episode only.
C17_Witness ==
    \E b \in Batches :
        /\ batch[b].pc = "done"
        /\ 3 \in Range(batch[b].recentIds)
        /\ Fetched(batch[b], 3)
        /\ 3 \notin Range(OutIds(batch[b]))
        /\ Len(batch[b].out) = 1

----------------------------------------------------------------------------
(* Properties of the settings (under SpecConfig).                          *)

\* The field of config that holds the value made of setting s.
EffectiveOf(s) ==
    CASE s = "MAX_CONCURRENT_REQUESTS" -> config.maxConcurrent
      [] s = "MAX_RETRIES" -> config.maxRetries
      [] s = "RETRY_DELAY_MS" -> config.initialRetryDelayMs
      [] s = "CACHE_DURATION_SECONDS" -> config.ttlMs
      [] s = "MAX_CACHE_ENTRIES" -> config.maxSize
      [] s = "FETCH_TIMEOUT_SECONDS" -> config.fetchTimeoutMs

\* C18: for every setting, the value in use is the default when the variable
\* is not set or does not start with a number, and otherwise the number
\* brought into the setting's range; MAX_RETRIES=0 gives maxRetries = 0.
C18_ClampedOrDefault ==
    \A s \in Settings :
        LET x == ParseInt(config.env[s])
            r == SettingRange[s]
        IN  /\ x.nan => EffectiveOf(s) = r.default * r.scale
            /\ (~x.nan /\ x.n < r.lo) => EffectiveOf(s) = r.lo * r.scale
            /\ (~x.nan /\ x.n > r.hi) => EffectiveOf(s) = r.hi * r.scale
            /\ (~x.nan /\ x.n >= r.lo /\ x.n <= r.hi) => EffectiveOf(s) = x.n * r.scale

----------------------------------------------------------------------------
(* Properties of the limiter's queue (under SpecFetch).                    *)

\* C19: the calls that wait are started in the order they were scheduled: a
\* call that is scheduled goes to the end of the queue, the call that starts
\* is the one at the head of the queue, and the queue changes in no other
\* way; so of two waiting calls the one scheduled first starts first.
C19_FifoStart ==
    [][/\ \A c \in DirectCalls :
             /\ (calls[c].pc = "idle" /\ calls'[c].pc = "queued") => queue' = Append(queue, c)
             /\ (calls[c].pc = "queued" /\ calls'[c].pc = "inflight") =>
                    /\ Len(queue) > 0
                    /\ Head(queue) = c
                    /\ queue' = Tail(queue)
             /\ (calls[c].pc = "queued" /\ calls'[c].pc = "queued") =>
                    \E i \in 1..Len(queue') : queue'[i] = c
       /\ \A i \in 1..Len(queue'), j \in 1..Len(queue') :
             (i < j /\ \E m \in 1..Len(queue) : queue[m] = queue'[j]) =>
                 \E m \in 1..Len(queue), n \in 1..Len(queue) :
                     m < n /\ queue[m] = queue'[i] /\ queue[n] = queue'[j]]_vars

\* C19 witness: every slot is taken and two calls wait in the queue, with no
\* start pending.
C19_Witness ==
    /\ activeCount = MAX_CONCURRENT_REQUESTS
    /\ Len(queue) = 2
    /\ ticks = 0
    /\ \A i \in 1..Len(queue) : calls[queue[i]].pc = "queued"

\* C20: once every submitted call has settled (none is queued, in flight or
\* backing off), whatever the mix of returns and raises, no slot is in use
\* and nothing is queued.
C20_SlotsReleased ==
    (\A c \in CallIds : calls[c].pc \in {"idle", "returned", "raised"}) =>
        /\ getActiveCount = 0
        /\ getPendingCount = 0

\* C20 witness: every direct call has settled, some returned and some raised
\* (one of them after using up its retries), and the limiter is empty.
C20_Witness ==
    /\ \A c \in DirectCalls : Settled(calls[c])
    /\ \E c \in DirectCalls : calls[c].pc = "returned"
    /\ \E c \in DirectCalls : calls[c].pc = "raised" /\ calls[c].requests = MAX_RETRIES + 1
    /\ \E c \in DirectCalls : calls[c].pc = "raised" /\ calls[c].requests = 1
    /\ getActiveCount = 0
    /\ getPendingCount = 0

----------------------------------------------------------------------------
(* Every scheduled task starts exactly once (under SpecFetchLive).         *)

\* The number of times call c is on the queue q.
TimesQueued(q, c) == Cardinality({i \in 1..Len(q) : q[i] = c})

\* C21: a call that was scheduled is on the queue exactly once until it
\* starts and never afterwards; it starts by one step that takes it off the
\* queue and issues its first request, and never goes back to waiting, so it
\* is not started twice; and every call that waits is started in the end,
\* given that the running calls settle.
C21_StartedExactlyOnce ==
    /\ [](\A c \in DirectCalls :
             TimesQueued(queue, c) = (IF calls[c].pc = "queued" THEN 1 ELSE 0))
    /\ [][\A c \in DirectCalls :
             /\ (calls[c].pc = "queued" /\ calls'[c].pc # "queued") =>
                    /\ calls'[c].pc = "inflight"
                    /\ calls'[c].requests = 1
                    /\ calls'[c].attempt = 0
             /\ calls[c].pc \notin {"idle", "queued"} =>
                    /\ calls'[c].pc \notin {"idle", "queued"}
                    /\ calls'[c].requests >= calls[c].requests
             /\ calls'[c].requests = 1 /\ calls[c].requests = 0 => calls[c].pc = "queued"]_vars
    /\ \A c \in DirectCalls : (calls[c].pc = "queued") ~> (calls[c].pc \notin {"idle", "queued"})

\* C21 witness: more calls than slots were scheduled and every one of them
\* has started: the last ones are on their first request while the others
\* have settled.
C21_Witness ==
    /\ NumCalls > MAX_CONCURRENT_REQUESTS
    /\ \A c \in DirectCalls : calls[c].pc \notin {"idle", "queued"}
    /\ Cardinality({c \in DirectCalls : calls[c].pc = "inflight" /\ calls[c].requests = 1})
           = MAX_CONCURRENT_REQUESTS
    /\ queue = <<>>

----------------------------------------------------------------------------
(* Properties of getCachedBatch (under SpecCache).                         *)

\* Key k has an entry in the entry list c whose age at time t does not exceed
\* its ttl.
Live(c, k, t) == KeyIndex(c, k) # 0 /\ t <= EntryOf(c, k).start + EntryOf(c, k).ttl

\* C22: getCachedBatch(keys) returns a mapping with one pair for each
\* requested key that has an unexpired entry, and for no other key; the value
\* of each pair is the entry's value; keys that are absent or expired are left
\* out, and when none of the keys has an unexpired entry the mapping is empty.
C22_BatchOmitsAbsent ==
    [][\A keys \in BatchKeyLists :
          (ret'.op = "getBatch" /\ ret'.keys = keys /\ GetCachedBatchOp(keys)) =>
              /\ {p[1] : p \in ret'.val} = {k \in Range(keys) : Live(cache, k, now)}
              /\ \A p \in ret'.val : p[2] = EntryOf(cache, p[1]).value
              /\ Cardinality(ret'.val) = Cardinality({p[1] : p \in ret'.val})
              /\ (\A k \in Range(keys) : ~Live(cache, k, now)) => ret'.val = {}]_vars

\* C22 witness: a getCachedBatch of episodes 1 and 2 found the entry of
\* episode 1 expired (it was the least recently used entry, and is gone) and
\* returned episode 2 alone.
C22_Witness ==
    /\ ret.op = "getBatch"
    /\ ret.keys = <<EpisodeKey(1), EpisodeKey(2)>>
    /\ ret.head = EpisodeKey(1)
    /\ {p[1] : p \in ret.val} = {EpisodeKey(2)}
    /\ KeyIndex(cache, EpisodeKey(1)) = 0

----------------------------------------------------------------------------
(* Properties of the diagnostics of an HTTP failure (under Spec).          *)

\* The step in which the request of call c settles with outcome o.
SettlesWith(c, o) == calls[c].pc = "inflight" /\ BatchRespond(c, o)

\* The step in which the request of call c settles.
Settles(c) == calls[c].pc = "inflight" /\ calls'[c].pc # "inflight"

\* The error e carries the status of response o, the url and the elapsed time
\* of the request, and of o's headers those on the diagnostic list that have a
\* value.
CarriesContext(e, o, url) ==
    /\ e.status = o.status
    /\ e.url = url
    /\ url # <<>>
    /\ e.elapsedMs = o.took
    /\ \A h \in e.responseHeaders : h[1] \in DIAGNOSTIC_HEADERS /\ h \in o.headers
    /\ \A h \in o.headers :
          (h[1] \in DIAGNOSTIC_HEADERS /\ h[2] # "") => h \in e.responseHeaders

\* What a finished batch returns is made of episode data alone: every item is
\* the parse of an episode body, and every fetch result holds a body or null.
ItemsFromBodies ==
    \A b \in Batches :
        /\ \A j \in 1..Len(batch[b].item) :
              batch[b].item[j].data \in AllEpisodeBodies \cup {Null}
        /\ \A k \in 1..Len(batch[b].out) :
              /\ batch[b].out[k] \in {parseEpisode(d) : d \in AllEpisodeBodies \ {Malformed}}
              /\ DOMAIN batch[b].out[k] = {"kind", "id"}

\* C23 as stated: the error of a non-successful HTTP status carries status,
\* url, elapsed time and listed headers, and a body snippet of at most 512
\* characters.
C23_SnippetWithin512 ==
    [][\A c \in BatchCalls : Settles(c) => \A o \in Menu(c) :
          (o.type = "response" /\ ~Ok(o) /\ SettlesWith(c, o)) =>
              /\ CarriesContext(calls'[c].lastError, o, calls[c].url)
              /\ Len(calls'[c].lastError.bodySnippet) <= SnippetMax]_vars

\* C23 amended: the error of a non-successful HTTP status carries the status,
\* the url, the elapsed time of the request, the response headers that are on
\* the diagnostic list and have a value, and as body snippet the body when it
\* has at most 512 characters, its first 512 characters followed by an
\* ellipsis character (513 characters) when it is longer, and the text
\* "(unable to read body)" when the body cannot be read; the call raises this
\* error object, and nothing of it is in the items fetchEpisodes returns.
C23_ErrorCarriesDiagnostics ==
    /\ [][\A c \in BatchCalls : Settles(c) => \A o \in Menu(c) :
             (o.type = "response" /\ ~Ok(o) /\ SettlesWith(c, o)) =>
                 LET e == calls'[c].lastError
                 IN  /\ CarriesContext(e, o, calls[c].url)
                     /\ (o.text.readable /\ Len(o.text.chars) <= SnippetMax) =>
                            e.bodySnippet = o.text.chars
                     /\ (o.text.readable /\ Len(o.text.chars) > SnippetMax) =>
                            /\ Len(e.bodySnippet) = SnippetMax + 1
                            /\ SubSeq(e.bodySnippet, 1, SnippetMax)
                                   = SubSeq(o.text.chars, 1, SnippetMax)
                            /\ e.bodySnippet[SnippetMax + 1] = Ellipsis
                     /\ ~o.text.readable => e.bodySnippet = UnableToReadBody
                     /\ calls'[c].pc = "raised" => calls'[c].result = e]_vars
    /\ []ItemsFromBodies

\* C23 witness: the first episode fetch of a batch has raised on a 403 whose
\* body is longer than 512 characters: the error has the url of the episode,
\* the two listed headers that have a value and a snippet of 513 characters,
\* while the batch holds the data of its other episode.
C23_Witness ==
    \E b \in Batches :
        /\ batch[b].pc = "items"
        /\ Len(batch[b].item) = 2
        /\ calls[<<b, 1>>].pc = "raised"
        /\ calls[<<b, 1>>].result.status = 403
        /\ calls[<<b, 1>>].result.url = ContentUrl(batch[b].uncachedIds[1])
        /\ calls[<<b, 1>>].result.elapsedMs = 7
        /\ calls[<<b, 1>>].result.responseHeaders
               = {<<"server", "cloudflare">>, <<"cf-ray", "12345-IAD">>}
        /\ Len(calls[<<b, 1>>].result.bodySnippet) = 513
        /\ batch[b].item[2].data # Null

----------------------------------------------------------------------------
(* Properties of a body that does not parse (under Spec).                  *)

\* The j-th fetch of the batch got a response whose body did not parse: the
\* call returned a response and the fetch result has no data.
BodyFailed(b, j) ==
    /\ batch[b].pc \in {"items", "done"}
    /\ j \in 1..Len(batch[b].item)
    /\ batch[b].item[j] = [st |-> "done", data |-> Null]
    /\ calls[<<b, j>>].pc = "returned"

-----------------------------------------------------------------------------
(* C25: what is written with console.error when something fails.           *)

\* One of the lines names this url, status and elapsed time.
LoggedWith(lines, url, status, elapsedMs) ==
    \E i \in DOMAIN lines :
        /\ lines[i].url = url /\ url # <<>>
        /\ lines[i].status = status
        /\ lines[i].elapsedMs = elapsedMs

\* The step is the continuation of fetchEpisodes taking the failure of call c.
TakesFailure(c) ==
    calls[c].pc = "raised" /\ calls'[c] # calls[c] /\ calls'[c] = Taken(calls[c])

\* C25 as stated: every failed attempt, every failed item and a failed listing
\* write a line that names the url, the status (0 when there is none) and the
\* elapsed time of the request that failed.
C25_EveryFailureLoggedWithContext ==
    [][ /\ \A c \in BatchCalls : Settles(c) => \A o \in Menu(c) :
              (SettlesWith(c, o) /\ ~Ok(o)) =>
                  LoggedWith(AttemptLog(calls[c], o), calls[c].url, o.status, o.took)
        /\ \A c \in BatchCalls :
              TakesFailure(c) =>
                  LoggedWith(CaughtLog(batch[c[1]], c, calls[c].result), calls[c].url,
                             calls[c].result.status, calls[c].result.elapsedMs)
      ]_vars

\* C25: an attempt that ends with an HTTP status that is not ok writes the url,
\* the status and the elapsed time, whether it is retried, not retried or the
\* last one; an attempt that fails without a status writes its url and the
\* error's message if it is retried and nothing if it is the last one; a
\* failed item writes one line with its id and the error's message and a
\* failed listing one line with the error's message, and neither line has a
\* url or an elapsed time.
C25_FailuresLoggedByKind ==
    [][ /\ \A c \in BatchCalls : Settles(c) => \A o \in Menu(c) :
              (SettlesWith(c, o) /\ ~Ok(o)) =>
                  LET lines == AttemptLog(calls[c], o)
                  IN  /\ o.status # 0 => LoggedWith(lines, calls[c].url, o.status, o.took)
                      /\ calls'[c].pc = "sleeping" =>
                            \E i \in DOMAIN lines :
                                /\ lines[i].kind = "attempt"
                                /\ lines[i].url = calls[c].url
                                /\ lines[i].message = calls'[c].lastError.message
                                /\ lines[i].elapsedMs = -1
                      /\ (o.status = 0 /\ calls'[c].pc # "sleeping") => lines = <<>>
        /\ \A c \in BatchCalls :
              TakesFailure(c) =>
                  LET lines == CaughtLog(batch[c[1]], c, calls[c].result)
                  IN  /\ Len(lines) = 1
                      /\ lines[1].kind = IF c[2] = 0 THEN "listing" ELSE "item"
                      /\ lines[1].id = IF c[2] = 0 THEN 0 ELSE batch[c[1]].uncachedIds[c[2]]
                      /\ lines[1].message = calls[c].result.message
                      /\ lines[1].message # <<>>
                      /\ lines[1].url = <<>> /\ lines[1].elapsedMs = -1
        /\ \A b \in Batches : \A j \in 1..BATCH_CAP :
              (BodyFailed(b, j)' /\ ~BodyFailed(b, j)) =>
                  LET lines == CaughtLog(batch[b], <<b, j>>, JsonError)
                  IN  /\ Len(lines) = 1
                      /\ lines[1].kind = "item"
                      /\ lines[1].id = batch[b].uncachedIds[j]
                      /\ lines[1].message # <<>>
                      /\ lines[1].url = <<>> /\ lines[1].elapsedMs = -1
      ]_vars

\* The listing request has failed without a status on its last attempt, after
\* retries, and the batch is about to catch the error.
C25_Witness ==
    /\ batch[1].pc = "listing"
    /\ calls[<<1, 0>>].pc = "raised"
    /\ calls[<<1, 0>>].requests = MAX_RETRIES + 1
    /\ calls[<<1, 0>>].result.name = "TypeError"
    /\ calls[<<1, 0>>].result.status = 0
    /\ AttemptLog([calls[<<1, 0>>] EXCEPT !.pc = "inflight"], NetworkFailure) = <<>>

-----------------------------------------------------------------------------
(* C26: the number of requests of one call, and its end.                   *)

\* C26: whatever its requests come to, a call of fetchWithRetry that has
\* started has made at least one request and never makes more than
\* MAX_RETRIES + 1; once it has returned or raised it makes no further
\* request and stays as it ended; and, every request settling or being
\* aborted by its timer, a call that has started returns or raises.
C26_BoundedRequestsThenSettles ==
    /\ [](\A c \in RetryCalls :
            /\ calls[c].requests <= MAX_RETRIES + 1
            /\ calls[c].pc \in {"inflight", "sleeping", "returned", "raised"} =>
                  calls[c].requests >= 1)
    /\ [][\A c \in RetryCalls : Settled(calls[c]) => calls'[c] = calls[c]]_vars
    /\ \A c \in RetryCalls :
          (calls[c].pc \in {"inflight", "sleeping"}) ~> Settled(calls[c])

\* A call has raised after MAX_RETRIES + 1 requests that came to a network
\* failure, a timeout and a 500, and another has returned after one request.
C26_Witness ==
    /\ \E c \in RetryCalls :
          /\ calls[c].pc = "raised"
          /\ calls[c].requests = MAX_RETRIES + 1
          /\ calls[c].lastError.name \in {"TypeError", "AbortError"}
    /\ \E c \in RetryCalls : calls[c].pc = "returned" /\ calls[c].requests = 1

-----------------------------------------------------------------------------
(* C27: which ids of a batch are fetched.                                  *)

\* The step is the batch lookup of batch b, with the fetches it starts.
LookupStep(b) == batch[b].pc \in {"idle", "listingJson"} /\ batch'[b].pc = "items"

\* The ids of the list whose key has an unexpired entry in the entry list c.
LiveIds(c, ids) == {id \in Range(ids) : Live(c, EpisodeKey(id), now)}

\* C27: the batch lookup finds exactly the ids of the capped list whose key
\* has an unexpired entry (the lookup removes and adds no such entry, so they
\* are those of the cache it leaves; when the listing came from the cache
\* they are those of the cache before the step), the ids to fetch are exactly
\* the others, and fetchWithRetry is called once for each id to fetch, with
\* that id's url; no other episode call of the batch ever makes a request,
\* and when the batch returns every id to fetch has had a request made.
C27_HitsSkipMissesFetch ==
    /\ [][\A b \in Batches :
            LookupStep(b) =>
                LET bt == batch'[b]
                    hits == LiveIds(cache', bt.recentIds)
                    n == Len(bt.uncachedIds)
                IN  /\ {id \in Range(bt.recentIds) : Hit(bt, id)} = hits
                    /\ Range(bt.uncachedIds) = Range(bt.recentIds) \ hits
                    /\ batch[b].pc = "idle" => hits = LiveIds(cache, bt.recentIds)
                    /\ \A j \in 1..BATCH_CAP :
                          IF j <= n
                          THEN /\ calls'[<<b, j>>].pc = "queued"
                               /\ calls'[<<b, j>>].url = ContentUrl(bt.uncachedIds[j])
                          ELSE calls'[<<b, j>>] = IdleCall]_vars
    /\ [](\A b \in Batches : \A j \in 1..BATCH_CAP :
            LET n == Len(batch[b].uncachedIds)
            IN  /\ j > n => calls[<<b, j>>].requests = 0
                /\ (j <= n /\ calls[<<b, j>>].url # <<>>) =>
                      /\ calls[<<b, j>>].url = ContentUrl(batch[b].uncachedIds[j])
                      /\ ~Hit(batch[b], batch[b].uncachedIds[j])
                /\ (j <= n /\ batch[b].pc = "done") => calls[<<b, j>>].requests >= 1)

\* A batch over two ids has returned: one id was found in the cache and no
\* request was made for it, the other was fetched.
C27_Witness ==
    \E b \in Batches :
        /\ batch[b].pc = "done"
        /\ Len(batch[b].recentIds) = 2
        /\ Len(batch[b].uncachedIds) = 1
        /\ \E id \in Range(batch[b].recentIds) : Hit(batch[b], id)
        /\ calls[<<b, 1>>].requests >= 1
        /\ calls[<<b, 2>>].requests = 0

-----------------------------------------------------------------------------
(* C28: what the item fetches of a batch write to the cache.               *)

\* The step gives key k an entry it did not have, or another value.
Stores(k) ==
    /\ KeyIndex(cache', k) # 0
    /\ KeyIndex(cache, k) = 0 \/ EntryOf(cache', k) # EntryOf(cache, k)

\* The step ends the j-th item of batch b with data.
ItemSucceeds(b, j) ==
    /\ batch[b].pc = "items"
    /\ j \in 1..Len(batch[b].item)
    /\ batch[b].item[j].st = "parsing"
    /\ batch'[b].item[j].st = "done"
    /\ batch'[b].item[j].data # Null

\* The step ends the j-th item of batch b without data.
ItemFails(b, j) ==
    /\ batch[b].pc = "items"
    /\ j \in 1..Len(batch[b].item)
    /\ batch[b].item[j].st # "done"
    /\ batch'[b].item[j] = [st |-> "done", data |-> Null]

\* C28: the step that ends an item with data leaves an unexpired entry for
\* episode:<id> whose value is that data; an entry for an episode key is
\* written by such a step for that id and by no other step, and the step that
\* ends an item without data changes nothing in the cache; so when a batch has
\* returned, an id none of whose fetches got data has no unexpired entry, and
\* the lookup of a batch puts every id of its list that has no unexpired entry
\* among the ids it fetches.
C28_StoreOnSuccessOnly ==
    /\ [][ /\ \A b \in Batches : \A j \in 1..BATCH_CAP :
                 /\ ItemSucceeds(b, j) =>
                       LET k == EpisodeKey(batch[b].uncachedIds[j])
                       IN  /\ Live(cache', k, now)
                           /\ EntryOf(cache', k).value = batch'[b].item[j].data
                 /\ ItemFails(b, j) => cache' = cache
           /\ \A id \in Ids :
                 Stores(EpisodeKey(id)) =>
                     \E b \in Batches : \E j \in 1..BATCH_CAP :
                         ItemSucceeds(b, j) /\ batch[b].uncachedIds[j] = id
           /\ \A b \in Batches :
                 LookupStep(b) =>
                     \A id \in Range(batch'[b].recentIds) :
                         ~Live(cache, EpisodeKey(id), now) =>
                             \E j \in 1..Len(batch'[b].uncachedIds) :
                                 /\ batch'[b].uncachedIds[j] = id
                                 /\ calls'[<<b, j>>].pc = "queued"
         ]_vars
    /\ [](\A b \in Batches :
            batch[b].pc = "done" =>
                \A id \in Range(batch[b].recentIds) :
                    FetchFailed(batch[b], id) => ~Live(cache, EpisodeKey(id), now))

\* A batch over two ids has returned: one was fetched and stored, the other
\* failed and has no entry.
C28_Witness ==
    \E b \in Batches :
        /\ batch[b].pc = "done"
        /\ Len(batch[b].uncachedIds) = 2
        /\ \E id \in Range(batch[b].uncachedIds) :
              /\ Fetched(batch[b], id)
              /\ Live(cache, EpisodeKey(id), now)
        /\ \E id \in Range(batch[b].uncachedIds) :
              /\ FetchFailed(batch[b], id)
              /\ KeyIndex(cache, EpisodeKey(id)) = 0

-----------------------------------------------------------------------------
(* C29: the course of each id of a batch, and the batch's return.          *)

\* Where the j-th fetch of batch bt stands: "none" before the lookup and when
\* the batch has no j-th id to fetch.
FetchState(bt, j) ==
    IF j > Len(bt.item) THEN "none"
    ELSE IF bt.item[j].st # "done" THEN "fetching"
    ELSE IF bt.item[j].data # Null THEN "resolved"
    ELSE "failed"

\* The moves of a fetch: started by the lookup, ended with or without data,
\* forgotten when the caller is done with the batch.
FetchMoves ==
    { <<"none", "fetching">>, <<"fetching", "resolved">>, <<"fetching", "failed">>,
      <<"resolved", "none">>, <<"failed", "none">> }

\* The batch has been called and has not returned.
BatchRunning(b) == batch[b].pc \in {"listing", "listingJson", "items"}

\* C29: an id of the capped list is found by the lookup and has its data from
\* that step on, or is not found and is fetched; a fetch moves from fetching
\* to resolved or failed and stays there until the batch is forgotten; the ids
\* found and the ids fetched stay as the lookup made them; the batch returns
\* only when every fetch has ended, in a step that changes none of them; and
\* a batch that has been called returns, every request settling or being
\* aborted by its timeout.
C29_ItemsEndThenBatchReturns ==
    /\ [][\A b \in Batches :
            /\ \A j \in 1..BATCH_CAP :
                  \/ FetchState(batch'[b], j) = FetchState(batch[b], j)
                  \/ <<FetchState(batch[b], j), FetchState(batch'[b], j)>> \in FetchMoves
            /\ \A j \in 1..BATCH_CAP :
                  FetchState(batch[b], j) \in {"resolved", "failed"} =>
                      \/ batch[b].pc = "done" /\ batch'[b] = IdleBatch
                      \/ /\ j <= Len(batch'[b].item)
                         /\ batch'[b].item[j] = batch[b].item[j]
            /\ batch[b].pc = "items" =>
                  /\ batch'[b].recentIds = batch[b].recentIds
                  /\ batch'[b].cached = batch[b].cached
                  /\ batch'[b].uncachedIds = batch[b].uncachedIds
            /\ (batch[b].pc = "items" /\ batch'[b].pc = "done") =>
                  /\ batch'[b].item = batch[b].item
                  /\ \A j \in 1..Len(batch[b].item) :
                        FetchState(batch[b], j) \in {"resolved", "failed"}]_vars
    /\ [](\A b \in Batches :
            /\ batch[b].pc \in {"items", "done"} =>
                  /\ Len(batch[b].item) = Len(batch[b].uncachedIds)
                  /\ \A id \in Range(batch[b].recentIds) :
                        Hit(batch[b], id) <=> id \notin Range(batch[b].uncachedIds)
                  /\ \A id \in Range(batch[b].recentIds) :
                        Hit(batch[b], id) => MapGet(batch[b].cached, EpisodeKey(id)) # Undefined
            /\ batch[b].pc = "done" =>
                  \A j \in 1..Len(batch[b].item) :
                      FetchState(batch[b], j) \in {"resolved", "failed"})
    /\ \A b \in Batches : BatchRunning(b) ~> (batch[b].pc = "done")

\* A batch over two ids has returned after a fetch that got its data and a
\* fetch that failed after retries, the listing request having timed out once.
C29_Witness ==
    \E b \in Batches :
        /\ batch[b].pc = "done"
        /\ calls[<<b, 0>>].requests = 2
        /\ Len(batch[b].item) = 2
        /\ FetchState(batch[b], 1) = "failed"
        /\ calls[<<b, 1>>].requests = MAX_RETRIES + 1
        /\ FetchState(batch[b], 2) = "resolved"

-----------------------------------------------------------------------------
(* C30: the timeout timers of a call.                                      *)

\* C30: the only timer a call has armed is that of the attempt whose request
\* is in flight, and it has none while it waits in the queue, backs off or
\* has ended: the timer of an attempt is cleared in the step in which the
\* attempt settles, whatever it settles with, and the next attempt arms its
\* own when its request is issued; so a timer that fires aborts the request
\* of the attempt that armed it, and after the abort the loop goes on: the
\* call backs off and makes its next attempt unless the attempt was the last,
\* and no other running call is touched.
C30_TimerPerAttempt ==
    /\ [](\A c \in DirectCalls :
            calls[c].timers = IF calls[c].pc = "inflight" THEN {calls[c].attempt} ELSE {})
    /\ [][\A c \in DirectCalls :
            /\ (calls[c].pc = "inflight" /\ calls'[c].pc # "inflight") =>
                  /\ calls[c].attempt \in calls[c].timers
                  /\ calls'[c].timers = {}
            /\ (calls[c].pc = "sleeping" /\ calls'[c].pc = "inflight") =>
                  /\ calls[c].timers = {}
                  /\ calls'[c].timers = {calls[c].attempt}
                  /\ calls'[c].attempt = calls[c].attempt
            /\ TimesOut(c) =>
                  /\ calls[c].attempt < MAX_RETRIES =>
                        /\ calls'[c].pc = "sleeping"
                        /\ calls'[c].attempt = calls[c].attempt + 1
                  /\ \A d \in DirectCalls \ {c} :
                        calls[d].pc \in {"inflight", "sleeping"} => calls'[d] = calls[d]]_vars

\* A call whose first two requests were aborted by their timers has its third
\* request in flight, with the timer of that attempt armed and no other.
C30_Witness ==
    \E c \in DirectCalls :
        /\ calls[c].pc = "inflight"
        /\ calls[c].attempt = 2
        /\ calls[c].requests = 3
        /\ calls[c].lastError.name = "AbortError"
        /\ calls[c].timers = {2}

----------------------------------------------------------------------------
(* Properties of overwriting and of reading (under SpecCache).             *)

\* C32: a set of a key that is already in a full cache evicts nothing: the
\* cache stays full, the written key holds the new value, and every other key
\* keeps its entry (value, age and ttl), so that it is as readable as before.
C32_OverwriteEvictsNothing ==
    [][\A w \in TestWrites, ttlMs \in TtlArgs :
          (/\ ret'.op = "set"
           /\ ret'.key = w[1]
           /\ SetCacheOp(w[1], w[2], ttlMs)
           /\ KeyIndex(cache, w[1]) # 0
           /\ Len(cache) = MAX_CACHE_ENTRIES)
          => /\ CacheSize(cache') = MAX_CACHE_ENTRIES
             /\ ret'.evicted = <<>>
             /\ EntryOf(cache', w[1]).value = w[2]
             /\ \A k \in Keys \ {w[1]} :
                   KeyIndex(cache, k) # 0 =>
                       /\ KeyIndex(cache', k) # 0
                       /\ EntryOf(cache', k) = EntryOf(cache, k)
                       /\ hasCache(cache', k, now) = hasCache(cache, k, now)]_vars

\* C32 witness: the second version of episode 1 was set over the first in a
\* full cache, where episode 1 was the least recently used entry; the cache is
\* still full and nothing was evicted.
C32_Witness ==
    /\ ret.op = "set"
    /\ ret.key = EpisodeKey(1)
    /\ ret.val = EpisodeData(1, FALSE)
    /\ ret.size = MAX_CACHE_ENTRIES
    /\ ret.evicted = <<>>
    /\ CacheSize(cache) = MAX_CACHE_ENTRIES
    /\ cache[MAX_CACHE_ENTRIES].key = EpisodeKey(1)
    /\ \E i \in 1..(MAX_CACHE_ENTRIES - 1) : hasCache(cache, cache[i].key, now)

\* C33: reads never extend an entry's lifetime.  An entry of key k is stamped
\* by the set that wrote it (start = the time of the write, ttl = the ttl of
\* the call or the cache-wide one); no step other than a set of k makes an
\* entry for k or changes the stamp of the entry k has, however often k is
\* read by get, has and getBatch; and what a read shows of k depends on that
\* stamp alone: k is shown up to start + ttl and never after.
C33_ReadsKeepLifetime ==
    [][/\ SetStampsEntry
       /\ \A k \in TestKeys :
             (KeyIndex(cache', k) # 0 /\ ~WritesKey(k)) =>
                 /\ KeyIndex(cache, k) # 0
                 /\ EntryOf(cache', k).start = EntryOf(cache, k).start
                 /\ EntryOf(cache', k).ttl = EntryOf(cache, k).ttl
       /\ \A k \in TestKeys :
             ReadsKey(k) =>
                 /\ Shown(ret', k) =>
                       /\ KeyIndex(cache, k) # 0
                       /\ now <= EntryOf(cache, k).start + EntryOf(cache, k).ttl
                 /\ (KeyIndex(cache, k) # 0
                        /\ now > EntryOf(cache, k).start + EntryOf(cache, k).ttl) =>
                       /\ ~Shown(ret', k)
                       /\ ret'.op # "has" => KeyIndex(cache', k) = 0]_vars

\* C33 witness: a get returned an entry in the last instant of its lifetime,
\* later than it was written, and the entry still carries the time of its
\* write: the next read after a tick of the clock finds it expired.
C33_Witness ==
    /\ ret.op = "get"
    /\ ret.val # Undefined
    /\ KeyIndex(cache, ret.key) # 0
    /\ EntryOf(cache, ret.key).start < now
    /\ now = EntryOf(cache, ret.key).start + EntryOf(cache, ret.key).ttl
    /\ ~hasCache(cache, ret.key, now + 1)

----------------------------------------------------------------------------
(* Properties of the limiter's queue (under SpecFetch).                    *)

\* C37 as stated: in every reachable state pendingCount > 0 implies
\* activeCount = MAX_CONCURRENT_REQUESTS.
C37_WorkConserving ==
    getPendingCount > 0 => getActiveCount = MAX_CONCURRENT_REQUESTS

\* C37 amended: the limiter is work-conserving once the microtasks it has
\* scheduled have run.  Whenever calls are pending while slots are free, at
\* least as many start microtasks are due as calls can be started (the smaller
\* of the number of pending calls and the number of free slots); so in every
\* state without a due microtask pendingCount > 0 implies activeCount =
\* MAX_CONCURRENT_REQUESTS.
C37_WorkConservingAfterMicrotasks ==
    /\ getActiveCount <= MAX_CONCURRENT_REQUESTS
    /\ ticks >= Min(getPendingCount, MAX_CONCURRENT_REQUESTS - getActiveCount)
    /\ ~MicrotaskDue => C37_WorkConserving

\* C37 witness: no microtask is due, a call has ended and handed its slot to
\* the call that was first in the queue, and another call is still waiting
\* while every slot is held.
C37_Witness ==
    /\ ~MicrotaskDue
    /\ getPendingCount > 0
    /\ getActiveCount = MAX_CONCURRENT_REQUESTS
    /\ \E c \in DirectCalls : Settled(calls[c])
    /\ \E c \in DirectCalls : calls[c].pc = "inflight" /\ c[2] > MAX_CONCURRENT_REQUESTS

\* C38: the error fetchWithRetry raises is the failure of the attempt that
\* ended the loop: when a request's outcome makes the call raise, on the last
\* attempt after retryable failures or before it on a failure that is not
\* retried, the error raised is the one that outcome produced for the call's
\* url, whatever the earlier attempts failed with; and a call raises after
\* fewer than MAX_RETRIES + 1 requests only on a failure that is not retried.
C38_RaisesLastFailure ==
    [][\A c \in DirectCalls :
          (Settles(c) /\ calls'[c].pc = "raised") =>
              \A o \in Menu(c) :
                  SettlesWith(c, o) =>
                      /\ ~Ok(o)
                      /\ calls'[c].result = AttemptError(o, calls[c].url)
                      /\ calls'[c].requests = calls[c].attempt + 1
                      /\ calls[c].attempt < MAX_RETRIES => ~isRetryableError(calls'[c].result)
                      /\ calls[c].attempt > 0 => isRetryableError(calls[c].lastError)]_vars

\* C38 witness: one call has raised the abort of its last attempt after
\* MAX_RETRIES + 1 requests (its earlier attempts failed otherwise or likewise),
\* and another has raised the HTTP 404 error of its only request.
C38_Witness ==
    /\ calls[<<0, 1>>].pc = "raised"
    /\ calls[<<0, 1>>].requests = MAX_RETRIES + 1
    /\ calls[<<0, 1>>].result = FetchError(Timeout)
    /\ calls[<<0, NumCalls>>].pc = "raised"
    /\ calls[<<0, NumCalls>>].requests = 1
    /\ calls[<<0, NumCalls>>].result.status = 404

----------------------------------------------------------------------------
(* Properties of the classification of failures (under SpecClassify).      *)

\* C39: the classification of failures is total and defaults to retry.  When
\* a request fails before the last attempt, the call raises at once only if
\* the failure is a response with a 4xx status other than 429; on every other
\* failure (5xx, 429, abort, network error, a status outside 4xx and 5xx) it
\* backs off and tries again, so that it raises only on the last attempt.
C39_OnlyClientErrorsStopEarly ==
    [][\A c \in RetryCalls :
          Settles(c) =>
              \A o \in ClassifyMenu(c) :
                  (SettlesWith(c, o) /\ ~Ok(o) /\ calls[c].attempt < MAX_RETRIES) =>
                      /\ calls'[c].pc \in {"raised", "sleeping"}
                      /\ calls'[c].pc = "raised" =>
                            /\ o.type = "response"
                            /\ o.status \in 400..499
                            /\ o.status # 429]_vars

----------------------------------------------------------------------------
(* Properties of the cached listing (under Spec).                          *)

\* The step starts batch b.
BatchStarts(b) == batch[b].pc = "idle" /\ batch'[b].pc # "idle"

\* The step is the one in which batch b has read the listing's body.
ListingRead(b) == batch[b].pc = "listingJson" /\ batch'[b].listing = "fetched"

\* The step is the one in which batch b gives the listing up.
ListingGivenUp(b) == batch[b].listing # "failed" /\ batch'[b].listing = "failed"

\* C34: the step that reads the body of a fetched listing stores it under
\* series:<id>, stamped with the time of the step, and no other step writes
\* that key; a batch that starts while the key has an unexpired entry takes
\* its ids from that entry and makes no call for the listing (the listing call
\* is never queued and never makes a request), a batch that starts while the
\* key has no entry or an expired one calls fetchWithRetry with the listing's
\* url; and the step in which a batch gives the listing up (the fetch raised,
\* or the body did not parse) leaves the cache as it was.
C34_ListingCachedUntilExpiry ==
    /\ [][\A b \in Batches :
             /\ ListingRead(b) =>
                   /\ Live(cache', SeriesKey, now)
                   /\ EntryOf(cache', SeriesKey).start = now
                   /\ EntryOf(cache', SeriesKey).value \in ListingBodies \ {Malformed}
                   /\ batch'[b].recentIds
                          = Slice(EntryOf(cache', SeriesKey).value.ids, BATCH_CAP)
             /\ Stores(SeriesKey) => \E b2 \in Batches : ListingRead(b2)
             /\ BatchStarts(b) =>
                   IF Live(cache, SeriesKey, now)
                   THEN /\ batch'[b].pc = "items"
                        /\ batch'[b].listing = "cached"
                        /\ batch'[b].recentIds
                               = Slice(EntryOf(cache, SeriesKey).value.ids, BATCH_CAP)
                        /\ calls'[<<b, 0>>] = IdleCall
                        /\ \A i \in 1..Len(queue') : queue'[i] # <<b, 0>>
                   ELSE /\ batch'[b].pc = "listing"
                        /\ calls'[<<b, 0>>].pc = "queued"
                        /\ calls'[<<b, 0>>].url = ContentUrl(SERIES_CONTENT_ID)
                        /\ queue' = Append(queue, <<b, 0>>)
                        /\ KeyIndex(cache', SeriesKey) = 0
             /\ ListingGivenUp(b) => cache' = cache]_vars
    /\ [](\A b \in Batches :
             batch[b].listing = "cached" => calls[<<b, 0>>] = IdleCall)

\* C34 witness: a batch has returned episodes from a listing it found in the
\* cache in the last instant of the entry's lifetime, later than the listing
\* was stored, without a request for the listing.
C34_Witness ==
    \E b \in Batches :
        /\ batch[b].pc = "done"
        /\ batch[b].listing = "cached"
        /\ calls[<<b, 0>>].requests = 0
        /\ Len(batch[b].out) > 0
        /\ KeyIndex(cache, SeriesKey) # 0
        /\ now = EntryOf(cache, SeriesKey).start + EntryOf(cache, SeriesKey).ttl

----------------------------------------------------------------------------
(* Properties of ids that are listed more than once (under Spec).          *)

\* The number of occurrences of id in the sequence ids.
Count(ids, id) == Cardinality({i \in 1..Len(ids) : ids[i] = id})

\* The id's data, from the lookup or from a fetch of the batch, parses to an
\* episode.
Yields(bt, id) ==
    /\ Hit(bt, id) \/ Fetched(bt, id)
    /\ parseEpisode(IF Hit(bt, id) THEN MapGet(bt.cached, EpisodeKey(id))
                    ELSE FetchedGet(bt, id)) # Null

\* C36: nothing inside a batch removes duplicates.  Once the lookup is done,
\* an id that was not found is among the ids to fetch as often as it is in
\* the capped list (an id that was found, not at all), and each of these
\* occurrences has a call of its own with the id's url; when the batch has
\* returned, each of these calls has made at least one request, and the
\* output is the capped list restricted to the ids that yield an episode, so
\* that such an id has one item at the place of each of its occurrences.
C36_NoDeduplication ==
    \A b \in Batches :
        LET bt == batch[b]
        IN  (bt.pc \in {"items", "done"} /\ bt.listing # "failed") =>
                /\ \A id \in Ids :
                      Count(bt.uncachedIds, id)
                          = (IF Hit(bt, id) THEN 0 ELSE Count(bt.recentIds, id))
                /\ Len(bt.item) = Len(bt.uncachedIds)
                /\ \A j \in 1..Len(bt.uncachedIds) :
                      /\ bt.item[j].st = "fetching" =>
                            /\ calls[<<b, j>>].pc # "idle"
                            /\ calls[<<b, j>>].url = ContentUrl(bt.uncachedIds[j])
                      /\ bt.pc = "done" => calls[<<b, j>>].requests >= 1
                /\ bt.pc = "done" =>
                      /\ OutIds(bt) = SelectSeq(bt.recentIds, LAMBDA id : Yields(bt, id))
                      /\ \A id \in Ids :
                            Count(OutIds(bt), id)
                                = (IF Yields(bt, id) THEN Count(bt.recentIds, id) ELSE 0)

\* C36 witness: the capped list names one id twice, the id was not cached and
\* was fetched twice; the first of the two fetches failed, the second got the
\* data, and the output has two items for the id.
C36_Witness ==
    \E b \in Batches :
        /\ batch[b].pc = "done"
        /\ Len(batch[b].recentIds) = 2
        /\ batch[b].recentIds[1] = batch[b].recentIds[2]
        /\ batch[b].uncachedIds = batch[b].recentIds
        /\ calls[<<b, 1>>].requests >= 1
        /\ calls[<<b, 2>>].requests >= 1
        /\ batch[b].item[1].data = Null
        /\ batch[b].item[2].data # Null
        /\ OutIds(batch[b]) = batch[b].recentIds

----------------------------------------------------------------------------
(* Properties of the feed cache (under SpecFeed).                          *)

\* The step is the arrival of request r: the handler runs up to its await.
Arrives(r) == res[r] # Pending /\ res'[r] # res[r] /\ res'[r].from \in {"pending", "cache"}

\* The step is the one in which the handler of request r, its batch over,
\* answers.
Answers(r) == res[r] = Pending /\ res'[r] # Pending

\* A feed was generated less than FEED_CACHE_MS ago.
FeedFresh == feedCache.data # Null /\ now - feedCache.timestamp < FEED_CACHE_MS

\* C40: a request whose batch could not obtain the listing is answered 200
\* with a feed without items, and that feed is stored in the feed cache with
\* the time of the answer, as every generated feed is; no other step changes
\* the feed cache; a request that arrives less than FEED_CACHE_MS after the
\* last feed was generated is answered 200 with that feed in the same step,
\* which starts no batch, queues no call and touches neither the response
\* cache nor the feed cache; any other request starts a batch.
C40_FeedCachedAfterFailure ==
    [][/\ \A r \in Requests :
             /\ Answers(r) =>
                   /\ res'[r].status = 200
                   /\ res'[r].from = "batch"
                   /\ res'[r].body = generateRSS(batch[r].out)
                   /\ batch[r].listing = "failed" => res'[r].body.items = <<>>
                   /\ feedCache' = [data |-> res'[r].body, timestamp |-> now]
             /\ Arrives(r) =>
                   IF FeedFresh
                   THEN /\ res'[r] = [status |-> 200, body |-> feedCache.data, from |-> "cache"]
                        /\ batch' = batch
                        /\ calls' = calls
                        /\ queue' = queue
                        /\ cache' = cache
                        /\ feedCache' = feedCache
                   ELSE /\ res'[r] = Pending
                        /\ batch'[r].pc # "idle"
                        /\ feedCache' = feedCache
       /\ feedCache' # feedCache => \E r \in Requests : Answers(r)]_vars

\* C40 witness: one request's batch failed to get the listing and the request
\* was answered the feed without items; the other request arrived later,
\* within the window, and was served that feed from the feed cache; no
\* listing is in the response cache and no call was made for it.
C40_Witness ==
    \E r, q \in Requests :
        /\ res[r] = [status |-> 200, body |-> generateRSS(<<>>), from |-> "batch"]
        /\ res[q] = [status |-> 200, body |-> generateRSS(<<>>), from |-> "cache"]
        /\ feedCache.data = generateRSS(<<>>)
        /\ feedCache.timestamp < now
        /\ now - feedCache.timestamp < FEED_CACHE_MS
        /\ KeyIndex(cache, SeriesKey) = 0
        /\ \A c \in RequestCalls : calls[c] = IdleCall

----------------------------------------------------------------------------
(* Properties of the merge of a batch (under SpecFeed).                    *)

\* The step is the merge of batch b: Promise.all is over and the episodes are
\* combined.
Merges(b) == batch[b].pc = "items" /\ batch'[b].pc = "done"

\* The batch lookup of bt found id.
LookupHit(bt, id) == MapHas(bt.cached, EpisodeKey(id))

\* What batch bt itself holds for id: what its lookup returned, else the
\* data of the last of its own fetches of id that gave data.
OwnData(bt, id) ==
    IF LookupHit(bt, id) THEN MapGet(bt.cached, EpisodeKey(id))
    ELSE LET js == {j \in 1..Len(bt.uncachedIds) :
                       bt.uncachedIds[j] = id /\ bt.item[j].data # Null}
         IN  IF js = {} THEN Undefined
             ELSE bt.item[CHOOSE j \in js : \A i \in js : i <= j].data

\* Batch bt holds data with an audio URL for id.
OwnPlayable(bt, id) ==
    /\ OwnData(bt, id) # Undefined
    /\ OwnData(bt, id).kind = "episode"
    /\ OwnData(bt, id).audio

\* C35: the output of a batch is a function of what the batch holds: the
\* listed ids for which the lookup's result or the batch's own fetch results
\* have data with audio, in listing order, each parsed from that data;
\* whether the entries are still in the cache at the merge plays no part, and
\* the merge neither reads nor changes the cache.
C35_OutputFromSnapshot ==
    [][\A b \in DOMAIN batch :
          Merges(b) =>
             LET bt == batch[b]
                 ids == SelectSeq(bt.recentIds, LAMBDA id : OwnPlayable(bt, id))
             IN  /\ ~batch'[b].raised
                 /\ batch'[b].out =
                       [k \in 1..Len(ids) |-> [kind |-> "item", id |-> OwnData(bt, ids[k]).id]]
                 /\ \A id \in Ids :
                       (OwnPlayable(bt, id) /\ \E i \in 1..Len(bt.recentIds) : bt.recentIds[i] = id)
                          => \E k \in 1..Len(batch'[b].out) : batch'[b].out[k].id = id
                 /\ cache' = cache]_vars

\* C35 witness: a batch has merged; one of its ids was a hit at its lookup
\* and is in the output although no entry for it is left in the cache (the
\* other batch's writes evicted it), and another id, which the batch fetched
\* itself, is in the output too.
C35_Witness ==
    \E b \in DOMAIN batch :
        /\ batch[b].pc = "done"
        /\ Len(batch[b].out) = 2
        /\ \E id \in Ids :
              /\ LookupHit(batch[b], id)
              /\ KeyIndex(cache, EpisodeKey(id)) = 0
              /\ \E k \in 1..Len(batch[b].out) : batch[b].out[k].id = id
        /\ \E id \in Ids :
              /\ ~LookupHit(batch[b], id)
              /\ \E k \in 1..Len(batch[b].out) : batch[b].out[k].id = id

\* The expired case of C35: a batch has merged and an id that was a hit at
\* its lookup is in the output although its entry, still in the cache, had
\* expired by the merge.
C35_ExpiredBeforeMerge ==
    \E b \in DOMAIN batch :
        /\ batch[b].pc = "done"
        /\ \E id \in Ids :
              /\ LookupHit(batch[b], id)
              /\ KeyIndex(cache, EpisodeKey(id)) # 0
              /\ ~LruHas(cache, EpisodeKey(id), now)
              /\ \E k \in 1..Len(batch[b].out) : batch[b].out[k].id = id

----------------------------------------------------------------------------
(* Properties of overlapping requests (under SpecFeedLive).                *)

\* The calls of the batch of request r.
CallsOf(r) == {c \in RequestCalls : c[1] = r}

\* The step is the batch lookup of request r's batch.
LooksUp(r) == batch[r].pc \in {"idle", "listingJson"} /\ batch'[r].pc = "items"

\* C31: the cache never holds more than MAX_CACHE_ENTRIES entries and the
\* limiter never runs more than MAX_CONCURRENT_REQUESTS calls at once; a
\* request that finds no fresh feed starts a batch of its own, whether or not
\* another batch is running, and leaves the other batch and its calls as they
\* are; a batch ends only with the answer to its own request, after its
\* merge; its lookup takes every listed id that is not live in the cache as
\* one to fetch, whatever the other batch is fetching; its output is its own
\* listing's playable ids in listing order, and its request is answered 200
\* with the feed of that output; every request that waits for a batch gets
\* that answer.
C31_OverlappingBatchesIndependent ==
    /\ [](Len(cache) <= MAX_CACHE_ENTRIES /\ activeCount <= MAX_CONCURRENT_REQUESTS)
    /\ [][\A r \in Requests :
             /\ (Arrives(r) /\ ~FeedFresh) =>
                   /\ res'[r] = Pending
                   /\ batch'[r].pc # "idle"
                   /\ \A q \in Requests \ {r} :
                         /\ res'[q] = res[q]
                         /\ batch'[q] = batch[q]
                         /\ \A c \in CallsOf(q) : calls'[c] = calls[c]
             /\ (batch[r].pc # "idle" /\ batch'[r].pc = "idle") =>
                   /\ batch[r].pc = "done"
                   /\ Answers(r)
             /\ LooksUp(r) =>
                   \A i \in 1..Len(batch'[r].recentIds) :
                      ~LruHas(cache, EpisodeKey(batch'[r].recentIds[i]), now)
                         => \E j \in 1..Len(batch'[r].uncachedIds) :
                               batch'[r].uncachedIds[j] = batch'[r].recentIds[i]
             /\ Merges(r) =>
                   /\ ~batch'[r].raised
                   /\ OutIds(batch'[r]) =
                         SelectSeq(batch[r].recentIds, LAMBDA id : OwnPlayable(batch[r], id))
             /\ Answers(r) =>
                   res'[r] = [status |-> 200, body |-> generateRSS(batch[r].out),
                              from |-> "batch"]]_vars
    /\ \A r \in Requests :
          (res[r] = Pending) ~> (res[r].status = 200 /\ res[r].from = "batch")

\* C31 witness: the batches of both requests are running; an id that both
\* lookups missed was fetched by both of them, each with a request of its
\* own, and both hold its data.
C31_Witness ==
    \E id \in Ids : \A r \in Requests :
        /\ res[r] = Pending
        /\ batch[r].pc = "items"
        /\ \E j \in 1..Len(batch[r].uncachedIds) :
              /\ batch[r].uncachedIds[j] = id
              /\ batch[r].item[j].data # Null
              /\ calls[<<r, j>>].requests >= 1

====
